---- MODULE Spec2Model ----
(***************************************************************************)
(* A model of mygit (shadofren/codecrafters-git-go): the loose object      *)
(* store, the tree (de)serializer, write-tree, commit-tree, the persist    *)
(* step of clone, and the command dispatch of main.                        *)
(*                                                                         *)
(* Every string of the program is a sequence of byte values (0..255): an   *)
(* object payload, an envelope, a hex SHA, a path component.  A path is a  *)
(* sequence of components relative to the process' working directory.      *)
(***************************************************************************)
EXTENDS Integers, Sequences, FiniteSets, TLC

VARIABLES
    fs,        \* the file system: path -> [dir, data, perm]
    readOnly,  \* TRUE while the file system refuses creations and writes
    sha1tab,   \* the digests SHA-1 has produced so far: data -> 20 bytes
    shaToObj,  \* the in-memory map of clone: hex sha -> [Type, Buf]
    last,      \* the last process run: its command line, exit code, result
    written,   \* history: the objects the store operations reported written
    input,     \* the input drawn for the codec specifications
    clonePc,   \* where the clone process is: "idle", "fetch", "restore"
    steps,     \* number of commands run so far
    pack       \* the clone process' locals: [commitSha, reader, left]

vars == <<fs, readOnly, sha1tab, shaToObj, last, written, input, clonePc, steps, pack>>

(***************************************************************************)
(* Bounds of the model.                                                    *)
(***************************************************************************)
MaxSteps == 4
MaxEntries == 2
MaxInstructions == 2

(***************************************************************************)
(* Literals of the program, as bytes.                                      *)
(***************************************************************************)
SP == 32
NUL == 0
HashLen == 20

StrGit == <<46, 103, 105, 116>>                        \* ".git"
StrObjects == <<111, 98, 106, 101, 99, 116, 115>>      \* "objects"
StrRefs == <<114, 101, 102, 115>>                      \* "refs"
StrHEAD == <<72, 69, 65, 68>>                          \* "HEAD"
StrBlob == <<98, 108, 111, 98>>                        \* "blob"
StrTree == <<116, 114, 101, 101>>                      \* "tree"
StrCommit == <<99, 111, 109, 109, 105, 116>>           \* "commit"
StrTag == <<116, 97, 103>>                             \* "tag"

\* "ref: refs/heads/master\n"
headFileContents ==
    <<114, 101, 102, 58, 32, 114, 101, 102, 115, 47, 104, 101, 97, 100, 115,
      47, 109, 97, 115, 116, 101, 114, 10>>

dirPermPadded == <<48, 52, 48, 48, 48, 48>>            \* "040000"

dirPerm == <<52, 48, 48, 48, 48>>                      \* "40000"
filePerm == <<49, 48, 48, 54, 52, 52>>                 \* "100644"

(***************************************************************************)
(* Sequence helpers.                                                       *)
(***************************************************************************)
MinOf(S) == CHOOSE x \in S : \A y \in S : x <= y

\* s[i], and 0 beyond hi.
At(s, i, hi) == IF i <= hi THEN s[i] ELSE 0

\* The sum of s[lo..hi], by halves down to runs of eight.
RECURSIVE SumRange(_, _, _)
SumRange(s, lo, hi) ==
    IF lo > hi THEN 0
    ELSE IF hi - lo < 8
    THEN s[lo] + At(s, lo + 1, hi) + At(s, lo + 2, hi) + At(s, lo + 3, hi)
         + At(s, lo + 4, hi) + At(s, lo + 5, hi) + At(s, lo + 6, hi) + At(s, lo + 7, hi)
    ELSE LET mid == (lo + hi) \div 2
         IN  SumRange(s, lo, mid) + SumRange(s, mid + 1, hi)

SumSeq(s) == SumRange(s, 1, Len(s))

RECURSIVE Flatten(_)
Flatten(ss) == IF ss = <<>> THEN <<>> ELSE Head(ss) \o Flatten(Tail(ss))

\* Sequences over S of length at most n.
SeqsUpTo(S, n) == UNION {[1..k -> S] : k \in 0..n}

\* bytes.Compare(a, b) < 0: byte-wise lexicographic order.
RECURSIVE BytesLess(_, _)
BytesLess(a, b) ==
    IF b = <<>> THEN FALSE
    ELSE IF a = <<>> THEN TRUE
    ELSE IF Head(a) # Head(b) THEN Head(a) < Head(b)
    ELSE BytesLess(Tail(a), Tail(b))

\* strconv.Itoa / the %d verb, for n >= 0.
RECURSIVE Itoa(_)
Itoa(n) == IF n < 10 THEN <<48 + n>> ELSE Itoa(n \div 10) \o <<48 + (n % 10)>>

\* The %03o verb applied to the nine permission bits of a file mode.
Octal3(p) == <<48 + ((p \div 64) % 8), 48 + ((p \div 8) % 8), 48 + (p % 8)>>

\* One byte as two lowercase hex digits; hex.EncodeToString and the %x verb.
HexDigit(v) == IF v < 10 THEN 48 + v ELSE 87 + v
EncodeToString(bytes) ==
    Flatten([i \in 1..Len(bytes) |-> <<HexDigit(bytes[i] \div 16), HexDigit(bytes[i] % 16)>>])

HexValue(c) ==
    IF c >= 48 /\ c <= 57 THEN c - 48
    ELSE IF c >= 97 /\ c <= 102 THEN c - 87
    ELSE IF c >= 65 /\ c <= 70 THEN c - 55
    ELSE -1

\* hex.DecodeString: fails on an odd length or a character that is no hex digit.
DecodeString(s) ==
    IF Len(s) % 2 # 0 \/ \E i \in 1..Len(s) : HexValue(s[i]) < 0
    THEN [ok |-> FALSE, bytes |-> <<>>]
    ELSE [ok |-> TRUE,
          bytes |-> [i \in 1..(Len(s) \div 2) |-> 16 * HexValue(s[2*i - 1]) + HexValue(s[2*i])]]

\* Cut splits data at the first delim; without one it returns (data, nil).
CutLast(data, delim) ==
    LET hits == {i \in 1..Len(data) : data[i] = delim}
    IN  IF hits = {} THEN [head |-> data, tail |-> <<>>]
        ELSE LET i == CHOOSE x \in hits : \A y \in hits : y <= x
             IN  [head |-> SubSeq(data, 1, i - 1), tail |-> SubSeq(data, i + 1, Len(data))]

Cut(data, delim) ==
    LET hits == {i \in 1..Len(data) : data[i] = delim}
    IN  IF hits = {} THEN [head |-> data, tail |-> <<>>]
        ELSE LET i == MinOf(hits)
             IN  [head |-> SubSeq(data, 1, i - 1), tail |-> SubSeq(data, i + 1, Len(data))]

(***************************************************************************)
(* zlib.  A stream is modelled as a stored deflate stream: the two header  *)
(* bytes, the length of the block, the literal bytes, and the Adler-32     *)
(* style checksum of the data.  Inflating checks all three.                *)
(***************************************************************************)
Adler(data) == (1 + SumSeq(data)) % 65521

compressZlib(data) == <<120, 156, Len(data)>> \o data \o <<Adler(data)>>

decompressZlib(stream) ==
    LET n == Len(stream) IN
    IF /\ n >= 4
       /\ stream[1] = 120 /\ stream[2] = 156
       /\ stream[3] = n - 4
       /\ stream[n] = Adler(SubSeq(stream, 4, n - 1))
    THEN [ok |-> TRUE, data |-> SubSeq(stream, 4, n - 1)]
    ELSE [ok |-> FALSE, data |-> <<>>]

(***************************************************************************)
(* SHA-1 is modelled as a collision-free function sampled lazily: the      *)
(* digest of data hashed before is the one recorded in the table, and new  *)
(* data gets the next unused digest.  Digests are 20 bytes; they contain   *)
(* 0x00 and 0x20 bytes and several share their first byte, as real         *)
(* digests do.                                                             *)
(***************************************************************************)
Digest(n) ==
    [i \in 1..HashLen |->
        IF i = 1 THEN (IF n % 2 = 0 THEN 32 ELSE 0)
        ELSE IF i = 2 THEN n % 256
        ELSE IF i = 3 THEN n \div 256
        ELSE IF i % 3 = 0 THEN 0
        ELSE IF i % 3 = 1 THEN 32
        ELSE 171]

\* A digest that depends on when the data is hashed.
sha1SumFresh(tab, data) == Digest(Cardinality(DOMAIN tab))

sha1Sum(tab, data) ==
    IF data \in DOMAIN tab THEN tab[data] ELSE Digest(Cardinality(DOMAIN tab))

sha1Learn(tab, data) ==
    IF data \in DOMAIN tab THEN tab ELSE tab @@ (data :> Digest(Cardinality(DOMAIN tab)))

\* calcSHA1: the digest as 40 lowercase hex digits.
calcSHA1(tab, data) == EncodeToString(sha1Sum(tab, data))

(***************************************************************************)
(* The file system.  A node is a directory or a regular file with its data *)
(* and permission bits; the working directory <<>> always exists.  While   *)
(* readOnly holds, nothing can be created or written (every such call      *)
(* returns an error); reading still works.                                 *)
(***************************************************************************)
DirNode(perm) == [dir |-> TRUE, data |-> <<>>, perm |-> perm]
FileNode(data, perm) == [dir |-> FALSE, data |-> data, perm |-> perm]

Join(a, b) == a \o b
Dir(p) == SubSeq(p, 1, Len(p) - 1)
Base(p) == p[Len(p)]

IsDir(f, p) == p = <<>> \/ (p \in DOMAIN f /\ f[p].dir)
IsFile(f, p) == p \in DOMAIN f /\ ~f[p].dir

\* os.MkdirAll: succeeds without a change when the directory exists.
MkdirAll(f, ro, p, perm) ==
    LET pre == {SubSeq(p, 1, k) : k \in 1..Len(p)}
        missing == {q \in pre : q \notin DOMAIN f}
    IN  IF \E q \in pre : IsFile(f, q) THEN [ok |-> FALSE, fs |-> f]
        ELSE IF missing = {} THEN [ok |-> TRUE, fs |-> f]
        ELSE IF ro THEN [ok |-> FALSE, fs |-> f]
        ELSE [ok |-> TRUE, fs |-> [q \in missing |-> DirNode(perm)] @@ f]

\* As WriteFile, but an existing file is appended to instead of truncated.
WriteFileAppend(f, ro, p, data, perm) ==
    IF ro \/ p = <<>> \/ ~IsDir(f, Dir(p)) \/ IsDir(f, p)
    THEN [ok |-> FALSE, fs |-> f]
    ELSE [ok |-> TRUE,
          fs |-> (p :> (IF p \in DOMAIN f THEN FileNode(f[p].data \o data, f[p].perm)
                        ELSE FileNode(data, perm))) @@ f]

\* os.WriteFile and os.Create followed by Write: create or truncate, then write.
WriteFile(f, ro, p, data, perm) ==
    IF ro \/ p = <<>> \/ ~IsDir(f, Dir(p)) \/ IsDir(f, p)
    THEN [ok |-> FALSE, fs |-> f]
    ELSE [ok |-> TRUE,
          fs |-> (p :> FileNode(data, IF p \in DOMAIN f THEN f[p].perm ELSE perm)) @@ f]

\* os.ReadFile, and os.Open followed by io.ReadAll.
ReadFile(f, p) ==
    IF IsFile(f, p) THEN [ok |-> TRUE, data |-> f[p].data]
    ELSE [ok |-> FALSE, data |-> <<>>]

RECURSIVE SortNames(_)
SortNames(S) ==
    IF S = {} THEN <<>>
    ELSE LET m == CHOOSE x \in S : \A y \in S : x = y \/ BytesLess(x, y)
         IN  <<m>> \o SortNames(S \ {m})

RECURSIVE SortNamesDesc(_)
SortNamesDesc(S) ==
    IF S = {} THEN <<>>
    ELSE LET m == CHOOSE x \in S : \A y \in S : x = y \/ BytesLess(y, x)
         IN  <<m>> \o SortNamesDesc(S \ {m})

ReadDirUnsorted(f, p) ==
    IF IsDir(f, p)
    THEN [ok |-> TRUE,
          names |-> SortNamesDesc({Base(q) : q \in {x \in DOMAIN f : Len(x) = Len(p) + 1 /\ Dir(x) = p}})]
    ELSE [ok |-> FALSE, names |-> <<>>]

\* os.ReadDir: the entries of the directory, sorted by file name.
ReadDir(f, p) ==
    IF IsDir(f, p)
    THEN [ok |-> TRUE,
          names |-> SortNames({Base(q) : q \in {x \in DOMAIN f : Len(x) = Len(p) + 1 /\ Dir(x) = p}})]
    ELSE [ok |-> FALSE, names |-> <<>>]

(***************************************************************************)
(* A running process: the file system it acts on, the SHA-1 table, and     *)
(*   halt  "" while it runs, "exit1" after must() called os.Exit(1),       *)
(*         "panic" after a run-time panic (Go exits with status 2);        *)
(*   err   whether any call of the run returned an error, handled or not;  *)
(*   why   the error a function of clone returned, "" when none;           *)
(*   ret   the value of the last function that returned one;               *)
(*   log   the objects the run wrote: [by, root, sha, kind, payload];      *)
(*   map   shaToObj, the in-memory map of a clone.                         *)
(***************************************************************************)
Proc(f, ro, tab, map) ==
    [fs |-> f, ro |-> ro, tab |-> tab, map |-> map,
     halt |-> "", err |-> FALSE, why |-> "", ret |-> <<>>, log |-> {}]

\* must(err) with err # nil.
must(P) == [P EXCEPT !.halt = "exit1", !.err = TRUE]
panic(P) == [P EXCEPT !.halt = "panic", !.err = TRUE]

\* A function returns the error why to its caller.
errorf(P, why) == [P EXCEPT !.err = TRUE, !.why = why]

ExitCode(P) == IF P.halt = "" THEN 0 ELSE IF P.halt = "exit1" THEN 1 ELSE 2

objectPathShort(sha) == <<StrGit, StrObjects, SubSeq(sha, 1, 2)>>

objectPath(sha) == <<StrGit, StrObjects, SubSeq(sha, 1, 2), SubSeq(sha, 3, Len(sha))>>

writeFile(P, filename, data) ==
    LET m == MkdirAll(P.fs, P.ro, Dir(filename), 493)
    IN  IF ~m.ok THEN must(P)
        ELSE LET w == WriteFile(m.fs, P.ro, filename, data, 420)
             IN  IF w.ok THEN [P EXCEPT !.fs = w.fs]
                 ELSE [P EXCEPT !.fs = m.fs, !.err = TRUE]

\* "<objectType> <len>\x00<contents>"
wrapContent(contents, objectType) ==
    objectType \o <<SP>> \o Itoa(Len(contents)) \o <<NUL>> \o contents

BlobSerialize(tab, Content) ==
    LET content == StrBlob \o <<SP>> \o Itoa(Len(Content)) \o <<NUL>> \o Content
    IN  [hash |-> calcSHA1(tab, content),
         data |-> compressZlib(content),
         tab |-> sha1Learn(tab, content)]

\* As Init, without the directory .git/refs.
InitNoRefs(P, root) ==
    LET mk(Q, d) ==
            LET m == MkdirAll(Q.fs, Q.ro, Join(root, d), 493)
            IN  IF m.ok THEN [Q EXCEPT !.fs = m.fs] ELSE [Q EXCEPT !.err = TRUE]
        P2 == mk(mk(P, <<StrGit>>), <<StrGit, StrObjects>>)
        w == WriteFile(P2.fs, P2.ro, Join(root, <<StrGit, StrHEAD>>), headFileContents, 420)
    IN  IF w.ok THEN [P2 EXCEPT !.fs = w.fs] ELSE [P2 EXCEPT !.err = TRUE]

Init(P, root) ==
    LET mk(Q, d) ==
            LET m == MkdirAll(Q.fs, Q.ro, Join(root, d), 493)
            IN  IF m.ok THEN [Q EXCEPT !.fs = m.fs] ELSE [Q EXCEPT !.err = TRUE]
        P1 == mk(P, <<StrGit>>)
        P2 == mk(P1, <<StrGit, StrObjects>>)
        P3 == mk(P2, <<StrGit, StrRefs>>)
        w == WriteFile(P3.fs, P3.ro, Join(root, <<StrGit, StrHEAD>>), headFileContents, 420)
    IN  IF w.ok THEN [P3 EXCEPT !.fs = w.fs] ELSE [P3 EXCEPT !.err = TRUE]

\* The header and content CatFile splits the stored envelope into.
ParseObject(dataBytes) ==
    LET c == Cut(dataBytes, NUL)
        h == Cut(c.head, SP)
    IN  [objectType |-> h.head, objectLen |-> h.tail, content |-> c.tail]

CatFile(P, localDir, objectSha) ==
    IF P.halt # "" THEN P
    ELSE IF Len(objectSha) < 2 THEN panic(P)
    ELSE LET r == ReadFile(P.fs, Join(localDir, objectPath(objectSha)))
             z == decompressZlib(r.data)
         IN  IF ~r.ok THEN must(P)
             ELSE IF ~z.ok THEN panic(P)
             ELSE [P EXCEPT !.ret = ParseObject(z.data).content]

HashObject(P, filename) ==
    IF P.halt # "" THEN P
    ELSE LET r == ReadFile(P.fs, filename)
             s == BlobSerialize(P.tab, r.data)
             object == <<StrGit, StrObjects, SubSeq(s.hash, 1, 2), SubSeq(s.hash, 3, Len(s.hash))>>
             Q == writeFile([P EXCEPT !.tab = s.tab], object, s.data)
         IN  IF ~r.ok THEN must(P)
             ELSE [Q EXCEPT !.ret = s.hash,
                            !.log = @ \cup {[by |-> "hash-object", root |-> <<>>, sha |-> s.hash,
                                             kind |-> StrBlob, payload |-> r.data]}]

(***************************************************************************)
(* Trees.  An entry is [Perm, Name, Hash] with Hash the 20 raw bytes.      *)
(***************************************************************************)
\* copy(hash[:], hashBytes) into a zeroed [20]byte.
Hash20(bytes) == [i \in 1..HashLen |-> IF i <= Len(bytes) THEN bytes[i] ELSE 0]

TreeEntrySerializeHex(e) ==
    e.Perm \o <<SP>> \o e.Name \o <<NUL>> \o EncodeToString(e.Hash)

TreeEntrySerialize(e) ==
    e.Perm \o <<SP>> \o e.Name \o <<NUL>> \o e.Hash

\* The payload of a tree: its entries, concatenated.
TreeEntries(Entry) == Flatten([i \in 1..Len(Entry) |-> TreeEntrySerialize(Entry[i])])

GitTreeSerialize(tab, Entry) ==
    LET entries == TreeEntries(Entry)
        content == StrTree \o <<SP>> \o Itoa(Len(entries)) \o <<NUL>> \o entries
    IN  [hash |-> calcSHA1(tab, content),
         data |-> compressZlib(content),
         tab |-> sha1Learn(tab, content),
         payload |-> entries]

\* readUntil: the bytes before the first delim, and the reader after it;
\* io.EOF when the delimiter never comes.
readUntil(reader, delim) ==
    LET hits == {i \in 1..Len(reader) : reader[i] = delim}
    IN  IF hits = {} THEN [ok |-> FALSE, result |-> <<>>, rest |-> <<>>]
        ELSE LET i == MinOf(hits)
             IN  [ok |-> TRUE, result |-> SubSeq(reader, 1, i - 1),
                  rest |-> SubSeq(reader, i + 1, Len(reader))]

\* The loop of ListTree over the content of a tree object: ok is FALSE when
\* must() ended the process.
RECURSIVE ListTreeLoop(_, _)
ListTreeLoop(reader, Entry) ==
    LET perm == readUntil(reader, SP)
        name == readUntil(perm.rest, NUL)
        n == IF Len(name.rest) < HashLen THEN Len(name.rest) ELSE HashLen
        entry == [Perm |-> perm.result, Name |-> name.result,
                  Hash |-> Hash20(SubSeq(name.rest, 1, n))]
    IN  IF ~perm.ok THEN [ok |-> TRUE, Entry |-> Entry]
        ELSE IF ~name.ok THEN [ok |-> FALSE, Entry |-> <<>>]
        ELSE ListTreeLoop(SubSeq(name.rest, n + 1, Len(name.rest)), Append(Entry, entry))

ListTree(P, localDir, treeSha) ==
    IF P.halt # "" THEN P
    ELSE IF Len(treeSha) < 2 THEN panic(P)
    ELSE LET r == ReadFile(P.fs, Join(localDir, objectPath(treeSha)))
             z == decompressZlib(r.data)
             t == ListTreeLoop(Cut(z.data, NUL).tail, <<>>)
         IN  IF ~r.ok THEN must(P)
             ELSE IF ~z.ok THEN panic(P)
             ELSE IF ~t.ok THEN must(P)
             ELSE [P EXCEPT !.ret = t.Entry]

\* parseTree of cmd/mygit/git.go, the decoder of the checkout walker.
RECURSIVE parseTree(_, _)
parseTree(treeBuf, children) ==
    LET mode == readUntil(treeBuf, SP)
        entryName == readUntil(mode.rest, NUL)
        n == IF Len(entryName.rest) < HashLen THEN Len(entryName.rest) ELSE HashLen
        child == [name |-> entryName.result, mode |-> mode.result,
                  sha |-> EncodeToString(Hash20(SubSeq(entryName.rest, 1, n)))]
    IN  IF ~mode.ok THEN [ok |-> TRUE, children |-> children]
        ELSE IF ~entryName.ok THEN [ok |-> FALSE, children |-> <<>>]
        ELSE IF n = 0 THEN [ok |-> FALSE, children |-> <<>>]
        ELSE parseTree(SubSeq(entryName.rest, n + 1, Len(entryName.rest)),
                       Append(children, child))

(***************************************************************************)
(* write-tree.                                                             *)
(***************************************************************************)
NewTreeEntry(P, filename) ==
    LET Q == HashObject(P, filename)
        h == DecodeString(Q.ret)
    IN  IF Q.halt # "" THEN Q
        ELSE IF ~h.ok THEN must(Q)
        ELSE [Q EXCEPT !.ret = [Perm |-> filePerm, Name |-> Base(filename),
                                Hash |-> Hash20(h.bytes)]]

\* The end of WriteTree: the entries collected in L.ret are serialized and
\* written as a tree object; ret is its hash.
WriteTreeStore(L) ==
    IF L.halt # "" THEN L
    ELSE LET s == GitTreeSerialize(L.tab, L.ret)
             Q == writeFile([L EXCEPT !.tab = s.tab], objectPath(s.hash), s.data)
         IN  [Q EXCEPT !.ret = s.hash,
                       !.log = @ \cup {[by |-> "write-tree", root |-> <<>>, sha |-> s.hash,
                                        kind |-> StrTree, payload |-> s.payload]}]

\* The start of WriteTree: os.ReadDir(root), whose error is printed and ignored.
WriteTreeList(P, root) ==
    LET d == ReadDir(P.fs, root)
    IN  IF d.ok THEN [P EXCEPT !.ret = d.names] ELSE [P EXCEPT !.err = TRUE, !.ret = d.names]

\* The loop of WriteTree over the entries of root; a directory is written by
\* the recursive call of WriteTree (list, loop, store).
RECURSIVE WriteTreeEntries(_, _, _, _)
WriteTreeEntries(P, root, entries, Entry) ==
    IF P.halt # "" \/ entries = <<>> THEN [P EXCEPT !.ret = Entry]
    ELSE LET name == Head(entries)
             fullPath == Join(root, <<name>>)
         IN  IF name = StrGit THEN WriteTreeEntries(P, root, Tail(entries), Entry)
             ELSE IF P.fs[fullPath].dir
             THEN LET P0 == WriteTreeList(P, fullPath)
                      Q == WriteTreeStore(WriteTreeEntries(P0, fullPath, P0.ret, <<>>))
                      h == DecodeString(Q.ret)
                      dirEntry == [Perm |-> dirPerm, Name |-> name, Hash |-> Hash20(h.bytes)]
                  IN  IF Q.halt # "" THEN Q
                      ELSE IF ~h.ok THEN must(Q)
                      ELSE WriteTreeEntries(Q, root, Tail(entries), Append(Entry, dirEntry))
             ELSE LET mode == <<49, 48, 48>> \o Octal3(P.fs[fullPath].perm)
                      Q == NewTreeEntry(P, fullPath)
                      treeEntry == [Q.ret EXCEPT !.Perm = mode]
                  IN  IF Q.halt # "" THEN Q
                      ELSE WriteTreeEntries(Q, root, Tail(entries), Append(Entry, treeEntry))

WriteTree(P, root) ==
    IF P.halt # "" THEN P
    ELSE LET P0 == WriteTreeList(P, root)
         IN  WriteTreeStore(WriteTreeEntries(P0, root, P0.ret, <<>>))

(***************************************************************************)
(* commit-tree.  A commit is [Tree, Parent, Author, Email, Time, Zone,     *)
(* Message]; Time is in Unix seconds and Zone the name of the local zone.  *)
(***************************************************************************)
StrAuthor == <<77, 97, 110, 104, 32, 84, 117>>         \* "Manh Tu"
\* "xxlaguna93@gmail.com"
StrEmail ==
    <<120, 120, 108, 97, 103, 117, 110, 97, 57, 51, 64, 103, 109, 97, 105, 108,
      46, 99, 111, 109>>

\* "tree %s\nparent %s\nauthor %s %s %d %s00\ncommitter %s %s %d %s00\n\n%s\n"
CommitFileContent(c) ==
    LET who == c.Author \o <<SP>> \o c.Email \o <<SP>> \o Itoa(c.Time) \o <<SP>>
               \o c.Zone \o <<48, 48, 10>>
    IN  <<116, 114, 101, 101, 32>> \o c.Tree \o <<10>>
        \o <<112, 97, 114, 101, 110, 116, 32>> \o c.Parent \o <<10>>
        \o <<97, 117, 116, 104, 111, 114, 32>> \o who
        \o <<99, 111, 109, 109, 105, 116, 116, 101, 114, 32>> \o who
        \o <<10>> \o c.Message \o <<10>>

GitCommitSerialize(tab, c) ==
    LET fileContent == CommitFileContent(c)
        content == StrCommit \o <<SP>> \o Itoa(Len(fileContent)) \o <<NUL>> \o fileContent
    IN  [hash |-> calcSHA1(tab, content),
         data |-> compressZlib(content),
         tab |-> sha1Learn(tab, content),
         payload |-> fileContent]

CommitTree(P, treeSha, parentSha, message, now, zone) ==
    IF P.halt # "" THEN P
    ELSE LET commit == [Tree |-> treeSha, Parent |-> parentSha, Author |-> StrAuthor,
                        Email |-> StrEmail, Time |-> now, Zone |-> zone,
                        Message |-> message]
             s == GitCommitSerialize(P.tab, commit)
             Q == writeFile([P EXCEPT !.tab = s.tab], objectPath(s.hash), s.data)
         IN  [Q EXCEPT !.ret = s.hash,
                       !.log = @ \cup {[by |-> "commit-tree", root |-> <<>>, sha |-> s.hash,
                                        kind |-> StrCommit, payload |-> s.payload]}]

(***************************************************************************)
(* The in-memory map of clone and its persist step.  An object is          *)
(* [Type, Buf] with Type the pack type number.                             *)
(***************************************************************************)
OBJECT_COMMIT == 1
OBJECT_TREE == 2
OBJECT_BLOB == 3
OBJECT_TAG == 4
OBJECT_OFS_DELTA == 6
OBJECT_REF_DELTA == 7

typeString(Type) ==
    IF Type = OBJECT_COMMIT THEN [ok |-> TRUE, s |-> StrCommit]
    ELSE IF Type = OBJECT_TREE THEN [ok |-> TRUE, s |-> StrTree]
    ELSE IF Type = OBJECT_BLOB THEN [ok |-> TRUE, s |-> StrBlob]
    ELSE IF Type = OBJECT_TAG THEN [ok |-> TRUE, s |-> StrTag]
    ELSE [ok |-> FALSE, s |-> <<>>]

wrappedBuf(o) ==
    LET t == typeString(o.Type)
    IN  IF t.ok THEN [ok |-> TRUE, buf |-> wrapContent(o.Buf, t.s)]
        ELSE [ok |-> FALSE, buf |-> <<>>]

\* The object is put in the map under the digest of its bare payload.
saveObjBare(P, o) ==
    [P |-> [P EXCEPT !.tab = sha1Learn(P.tab, o.Buf),
                     !.map = (calcSHA1(P.tab, o.Buf) :> o) @@ P.map],
     ok |-> TRUE]

\* saveObj: ok is FALSE when it returns an error.
saveObj(P, o) ==
    LET b == wrappedBuf(o)
        objSha == calcSHA1(P.tab, b.buf)
    IN  IF ~b.ok THEN [P |-> [P EXCEPT !.err = TRUE], ok |-> FALSE]
        ELSE [P |-> [P EXCEPT !.tab = sha1Learn(P.tab, b.buf),
                              !.map = (objSha :> o) @@ P.map],
              ok |-> TRUE]

writeGitObject(P, localDir, content) ==
    LET blobSha == calcSHA1(P.tab, content)
        objectFilePath == Join(localDir, objectPath(blobSha))
        m == MkdirAll(P.fs, P.ro, Dir(objectFilePath), 493)
        w == WriteFile(m.fs, P.ro, objectFilePath, compressZlib(content), 438)
        Q == [P EXCEPT !.tab = sha1Learn(P.tab, content)]
    IN  IF ~m.ok THEN [P |-> [Q EXCEPT !.err = TRUE], ok |-> FALSE]
        ELSE IF ~w.ok THEN [P |-> [Q EXCEPT !.fs = m.fs, !.err = TRUE], ok |-> FALSE]
        ELSE [P |-> [Q EXCEPT !.fs = w.fs, !.ret = blobSha], ok |-> TRUE]

\* Nothing is written, and no error is returned.
writeFetchedObjectsNone(P, localRepo, order) == [P |-> P, ok |-> TRUE]

\* writeFetchedObjects, ranging over the map in the order the run-time picked.
RECURSIVE writeFetchedObjects(_, _, _)
writeFetchedObjects(P, localRepo, order) ==
    IF order = <<>> THEN [P |-> P, ok |-> TRUE]
    ELSE LET object == P.map[Head(order)]
             b == wrappedBuf(object)
             w == writeGitObject(P, localRepo, b.buf)
             Q == [w.P EXCEPT !.log = @ \cup {[by |-> "clone", root |-> localRepo, sha |-> w.P.ret,
                                               kind |-> typeString(object.Type).s,
                                               payload |-> object.Buf]}]
         IN  IF ~b.ok THEN [P |-> [P EXCEPT !.err = TRUE], ok |-> FALSE]
             ELSE IF ~w.ok THEN w
             ELSE writeFetchedObjects(Q, localRepo, Tail(order))

(***************************************************************************)
(* The inputs of the store specification.                                  *)
(***************************************************************************)
NameA == <<97>>                                        \* "a"
NameB == <<98>>                                        \* "b"
NameD == <<100>>                                       \* "d"
NameX == <<120>>                                       \* "x"
StrInit == <<105, 110, 105, 116>>                      \* "init"
StrUTC == <<85, 84, 67>>                               \* "UTC"

\* "ref: refs/heads/main\n", the HEAD of a repository made by another tool.
OtherHead ==
    <<114, 101, 102, 58, 32, 114, 101, 102, 115, 47, 104, 101, 97, 100, 115,
      47, 109, 97, 105, 110, 10>>

\* The file system holding the regular files F, with their parent directories.
MkFs(F) ==
    LET paths == {f.path : f \in F}
        dirs == UNION {{SubSeq(q, 1, k) : k \in 1..(Len(q) - 1)} : q \in paths}
    IN  [q \in paths \cup dirs |->
            IF q \in paths
            THEN LET f == CHOOSE g \in F : g.path = q IN FileNode(f.data, f.perm)
            ELSE DirNode(493)]

File(path, data, perm) == [path |-> path, data |-> data, perm |-> perm]

\* The working directories a command may start in: empty; two files; files and
\* a subdirectory; a repository of another tool with a nested repository.
InitialFs ==
    { MkFs({}),
      MkFs({File(<<NameA>>, <<97, 0>>, 420), File(<<NameB>>, <<>>, 493)}),
      MkFs({File(<<NameB>>, <<32>>, 420), File(<<NameA>>, <<97>>, 493),
            File(<<NameD, NameB>>, <<0, 32>>, 384), File(<<NameD, NameA>>, <<97>>, 420)}),
      MkFs({File(<<StrGit, StrHEAD>>, OtherHead, 420), File(<<NameA>>, <<32, 0>>, 420),
            File(<<NameD, StrGit, StrHEAD>>, headFileContents, 420),
            File(<<NameD, StrGit, NameX>>, <<120>>, 420),
            File(<<NameD, NameX, NameA>>, <<>>, 420)}) }

\* What the user writes into the working file "a" between two commands.
Edits == {<<>>}

\* The files hash-object is run on ("x" does not exist).
HashArgs == {<<NameA>>, <<NameD, NameA>>, <<NameX>>}

\* The objects a packfile hands to saveObj.
FetchedObjects ==
    { [Type |-> OBJECT_TREE, Buf |-> <<>>],
      [Type |-> OBJECT_TAG, Buf |-> <<32, 0>>],
      [Type |-> OBJECT_BLOB, Buf |-> <<>>],
      [Type |-> OBJECT_REF_DELTA, Buf |-> <<97>>] }

\* The directory clone is run into.
CloneDir == <<NameD>>

BogusSha == [i \in 1..40 |-> 102]                      \* "ffff...f"

\* time.Now(): the clock advances with every step.
Clock == steps + 1

\* commit-tree is given a tree written before, or else a SHA of no object.
TreeArgs ==
    LET trees == {w.sha : w \in {v \in written : v.by = "write-tree"}}
    IN  IF trees = {} THEN {BogusSha} ELSE trees

ShasOf(W, kind) == {w.sha : w \in {v \in W : v.kind = kind /\ v.root = <<>>}}

\* All orders in which a range over the map can visit its keys.
Orders(S) == {o \in [1..Cardinality(S) -> S] : \A i, j \in DOMAIN o : i # j => o[i] # o[j]}

\* No clone is running.
NoPack == [commitSha |-> <<>>, reader |-> <<>>, left |-> 0]

NoRun ==
    [cmd |-> "", arg |-> <<>>, exit |-> 0, err |-> FALSE, why |-> "", ret |-> <<>>,
     log |-> {}, had |-> <<>>]

(***************************************************************************)
(* The store specification: the commands of main that write the store,     *)
(* and the steps of clone that fill and persist the in-memory map, one     *)
(* process at a time (no command runs while a clone is fetching) on a file *)
(* system that never fails.                                                *)
(***************************************************************************)
StoreInit ==
    /\ fs \in InitialFs
    /\ readOnly = FALSE
    /\ sha1tab = <<>>
    /\ shaToObj = <<>>
    /\ last = NoRun
    /\ written = {}
    /\ input = <<>>
    /\ clonePc = "idle"
    /\ steps = 0
    /\ pack = NoPack

\* The process P ended (or, for a step of clone, went on): its effects.
Finish(cmd, arg, P) ==
    /\ fs' = P.fs
    /\ sha1tab' = P.tab
    /\ last' = [cmd |-> cmd, arg |-> arg, exit |-> ExitCode(P), err |-> P.err,
                why |-> P.why, ret |-> P.ret, log |-> P.log, had |-> fs]
    /\ written' = written \cup P.log
    /\ steps' = steps + 1
    /\ UNCHANGED <<readOnly, input>>

Start == Proc(fs, readOnly, sha1tab, <<>>)

InitCmd ==
    /\ steps < MaxSteps
    /\ clonePc # "fetch"
    /\ Finish("init", <<>>, Init(Start, <<>>))
    /\ UNCHANGED <<shaToObj, clonePc, pack>>

HashObjectCmd ==
    /\ steps < MaxSteps
    /\ clonePc # "fetch"
    /\ \E filename \in HashArgs : Finish("hash-object", filename, HashObject(Start, filename))
    /\ UNCHANGED <<shaToObj, clonePc, pack>>

WriteTreeCmd ==
    /\ steps < MaxSteps
    /\ clonePc # "fetch"
    /\ Finish("write-tree", <<>>, WriteTree(Start, <<>>))
    /\ UNCHANGED <<shaToObj, clonePc, pack>>

CommitTreeCmd ==
    /\ steps < MaxSteps
    /\ clonePc # "fetch"
    /\ \E treeSha \in TreeArgs,
          parentSha \in ShasOf(written, StrCommit) \cup {<<>>} :
            Finish("commit-tree", <<treeSha, parentSha>>,
                   CommitTree(Start, treeSha, parentSha, StrInit, Clock, StrUTC))
    /\ UNCHANGED <<shaToObj, clonePc, pack>>

\* The user changes the working file "a".
EditFile ==
    /\ steps < MaxSteps
    /\ clonePc # "fetch"
    /\ IsFile(fs, <<NameA>>)
    /\ \E data \in Edits :
        /\ data # fs[<<NameA>>].data
        /\ fs' = [fs EXCEPT ![<<NameA>>] = FileNode(data, 493)]
    /\ last' = [NoRun EXCEPT !.cmd = "edit", !.had = fs]
    /\ steps' = steps + 1
    /\ UNCHANGED <<readOnly, sha1tab, shaToObj, written, input, clonePc, pack>>

\* Clone starts: Init(localDir), with an empty map.
CloneInit ==
    /\ steps < MaxSteps
    /\ clonePc = "idle"
    /\ Finish("clone-init", CloneDir, Init(Start, CloneDir))
    /\ shaToObj' = <<>>
    /\ clonePc' = "fetch"
    /\ UNCHANGED pack

\* The pack decoder hands one decoded object to saveObj; an error ends clone.
SaveObj ==
    /\ steps < MaxSteps
    /\ clonePc = "fetch"
    /\ \E o \in FetchedObjects :
        LET R == saveObj(Proc(fs, readOnly, sha1tab, shaToObj), o)
        IN  /\ Finish("clone-save", <<>>, IF R.ok THEN R.P ELSE must(R.P))
            /\ shaToObj' = IF R.ok THEN R.P.map ELSE <<>>
            /\ clonePc' = IF R.ok THEN "fetch" ELSE "idle"
            /\ UNCHANGED pack

\* Clone persists the map: writeFetchedObjects(localDir).
WriteFetchedObjects ==
    /\ steps < MaxSteps
    /\ clonePc = "fetch"
    /\ \E order \in Orders(DOMAIN shaToObj) :
        LET R == writeFetchedObjects(Proc(fs, readOnly, sha1tab, shaToObj), CloneDir, order)
        IN  /\ Finish("clone-persist", CloneDir, IF R.ok THEN R.P ELSE must(R.P))
            /\ shaToObj' = IF R.ok THEN shaToObj ELSE <<>>
            /\ clonePc' = IF R.ok THEN "restore" ELSE "idle"
            /\ UNCHANGED pack

Next ==
    \/ InitCmd
    \/ HashObjectCmd
    \/ WriteTreeCmd
    \/ CommitTreeCmd
    \/ EditFile
    \/ CloneInit
    \/ SaveObj
    \/ WriteFetchedObjects

Spec == StoreInit /\ [][Next]_vars

(***************************************************************************)
(* Properties of the store.                                                *)
(***************************************************************************)
Kinds == {StrBlob, StrTree, StrCommit, StrTag}

\* What reading the address sha of the store under root yields.
ReadBack(root, sha) ==
    LET P == CatFile(Start, root, sha)
        z == decompressZlib(ReadFile(fs, Join(root, objectPath(sha))).data)
    IN  [ok |-> P.halt = "", kind |-> ParseObject(z.data).objectType, payload |-> P.ret]

\* The files below a directory .git/objects.
ObjectFiles(f) ==
    {p \in DOMAIN f :
        ~f[p].dir /\ \E k \in 1..(Len(p) - 2) : p[k] = StrGit /\ p[k + 1] = StrObjects}

\* The file p is .git/objects/<sha[0:2]>/<sha[2:40]> for the SHA-1 of the
\* envelope it inflates to, and the envelope states the size of its payload.
WellPlaced(f, tab, p) ==
    LET n == Len(p)
        z == decompressZlib(f[p].data)
        o == ParseObject(z.data)
    IN  /\ n >= 4 /\ p[n - 3] = StrGit /\ p[n - 2] = StrObjects
        /\ Len(p[n - 1]) = 2 /\ Len(p[n]) = 38
        /\ z.ok
        /\ z.data \in DOMAIN tab
        /\ p[n - 1] \o p[n] = EncodeToString(tab[z.data])
        /\ o.objectType \in Kinds
        /\ o.objectLen = Itoa(Len(o.content))
        /\ z.data = o.objectType \o <<SP>> \o o.objectLen \o <<NUL>> \o o.content

(* C1: every object a store operation wrote (kind K, payload P, at the    *)
(* address it returned) reads back as exactly kind K and payload P.        *)
C1_RoundTrip ==
    \A w \in written :
        ReadBack(w.root, w.sha) = [ok |-> TRUE, kind |-> w.kind, payload |-> w.payload]

\* A tag with 0x20 and 0x00 in its payload and an empty blob were written.
C1_Witness ==
    /\ \E w \in written : w.kind = StrTag /\ w.payload = <<32, 0>>
    /\ \E w \in written : w.kind = StrBlob /\ w.payload = <<>>

(* C2: every loose object file of a store lies at                          *)
(* .git/objects/<sha[0:2]>/<sha[2:40]>, sha being the SHA-1 of the         *)
(* envelope the file inflates to, whose size field is the payload length.  *)
C2_AddressInvariant == \A p \in ObjectFiles(fs) : WellPlaced(fs, sha1tab, p)

\* Objects of write-tree and of the persist step of clone are in their stores.
C2_Witness ==
    /\ \E w \in written : w.by = "write-tree" /\ w.payload # <<>>
    /\ \E w \in written : w.by = "clone"
    /\ \E p \in ObjectFiles(fs) : p[1] = NameD
    /\ \E p \in ObjectFiles(fs) : p[1] = StrGit

(* C3: an object file, once in the store, stays there with the same bytes  *)
(* in every later state: a repeated write leaves them identical, and no    *)
(* other write touches them.                                               *)
C3_NeverMutated ==
    [][\A p \in ObjectFiles(fs) : p \in DOMAIN fs' /\ fs'[p] = fs[p]]_vars

\* The last run wrote an object whose file was in the store before.
C3_Witness ==
    \E w \in last.log : Join(w.root, objectPath(w.sha)) \in ObjectFiles(last.had)

(* C5: after init(root) the directories root/.git, root/.git/objects and   *)
(* root/.git/refs exist and root/.git/HEAD holds "ref: refs/heads/master"  *)
(* and a newline, whatever was there before.                               *)
C5_InitPost ==
    last.cmd \in {"init", "clone-init"} =>
        /\ IsDir(fs, Join(last.arg, <<StrGit>>)) /\ Join(last.arg, <<StrGit>>) \in DOMAIN fs
        /\ IsDir(fs, Join(last.arg, <<StrGit, StrObjects>>))
        /\ IsDir(fs, Join(last.arg, <<StrGit, StrRefs>>))
        /\ ReadFile(fs, Join(last.arg, <<StrGit, StrHEAD>>))
             = [ok |-> TRUE, data |-> headFileContents]

\* init ran where .git existed, with a HEAD of another content and no refs.
C5_Witness ==
    /\ last.cmd = "init"
    /\ IsFile(last.had, <<StrGit, StrHEAD>>)
    /\ last.had[<<StrGit, StrHEAD>>].data = OtherHead
    /\ <<StrGit, StrRefs>> \notin DOMAIN last.had

\* The names of the entries of a tree payload, in their order.
NamesOf(payload) ==
    LET t == ListTreeLoop(payload, <<>>)
    IN  [i \in 1..Len(t.Entry) |-> t.Entry[i].Name]

(* C9: every tree object write-tree produced, at every depth, lists its    *)
(* entries by name in byte-wise ascending order.                           *)
C9_TreesSorted ==
    \A w \in written :
        w.by = "write-tree" =>
            LET names == NamesOf(w.payload)
            IN  \A i \in 1..(Len(names) - 1) : BytesLess(names[i], names[i + 1])

\* write-tree produced a tree of three entries and a subtree of two.
C9_Witness ==
    \E w1, w2 \in written :
        /\ w1.by = "write-tree" /\ w2.by = "write-tree"
        /\ Len(NamesOf(w1.payload)) = 3
        /\ Len(NamesOf(w2.payload)) = 2
        /\ \E i \in 1..3 :
            EncodeToString(ListTreeLoop(w1.payload, <<>>).Entry[i].Hash) = w2.sha

\* The mode write-tree must record for a regular file with these permissions.
ExpectedMode(perm) ==
    IF perm = 420 THEN <<49, 48, 48, 54, 52, 52>>
    ELSE IF perm = 493 THEN <<49, 48, 48, 55, 53, 53>>
    ELSE IF perm = 384 THEN <<49, 48, 48, 54, 48, 48>>
    ELSE <<>>

\* The names in directory dir, without ".git".
Listed(dir) ==
    {Base(q) : q \in {x \in DOMAIN fs : Len(x) = Len(dir) + 1 /\ Dir(x) = dir}} \ {StrGit}

\* The stored tree treeSha has exactly one entry per name listed in dir: a
\* directory with mode 40000 and a tree that matches it in turn, a regular
\* file with mode 100<perm> and the blob of its content.
RECURSIVE TreeMatchesDir(_, _)
TreeMatchesDir(treeSha, dir) ==
    LET t == ListTree(Start, <<>>, treeSha)
    IN  /\ t.halt = ""
        /\ ReadBack(<<>>, treeSha).kind = StrTree
        /\ Len(t.ret) = Cardinality(Listed(dir))
        /\ {t.ret[i].Name : i \in 1..Len(t.ret)} = Listed(dir)
        /\ \A i \in 1..Len(t.ret) :
            LET e == t.ret[i]
                q == Join(dir, <<e.Name>>)
            IN  IF fs[q].dir
                THEN /\ e.Perm = <<52, 48, 48, 48, 48>>
                     /\ TreeMatchesDir(EncodeToString(e.Hash), q)
                ELSE /\ e.Perm = ExpectedMode(fs[q].perm)
                     /\ ReadBack(<<>>, EncodeToString(e.Hash))
                          = [ok |-> TRUE, kind |-> StrBlob, payload |-> fs[q].data]

\* The paths of the working tree: no component is ".git".
WorkPaths == {p \in DOMAIN fs : \A k \in 1..Len(p) : p[k] # StrGit}

(* C10: the tree write-tree returns has exactly one entry per directory    *)
(* entry other than ".git" (40000 and the subtree's hash for a directory,  *)
(* 100<perm> and the blob's hash for a regular file), at every depth; and  *)
(* every object the run wrote is the blob of a file or the tree of a       *)
(* directory outside ".git".                                               *)
C10_WriteTreeEntries ==
    (last.cmd = "write-tree" /\ last.exit = 0) =>
        /\ TreeMatchesDir(last.ret, <<>>)
        /\ \A w \in last.log :
            IF w.kind = StrBlob
            THEN \E q \in WorkPaths : ~fs[q].dir /\ fs[q].data = w.payload
            ELSE /\ w.kind = StrTree
                 /\ \E q \in WorkPaths \cup {<<>>} : IsDir(fs, q) /\ TreeMatchesDir(w.sha, q)

\* write-tree ran in a repository that holds a nested repository.
C10_Witness ==
    /\ last.cmd = "write-tree" /\ last.exit = 0
    /\ IsFile(fs, <<StrGit, StrHEAD>>)
    /\ IsFile(fs, <<NameD, StrGit, NameX>>)
    /\ IsFile(fs, <<NameD, NameX, NameA>>)
    /\ Cardinality(last.log) >= 4

(***************************************************************************)
(* The tree specification: a list of entries is encoded and stored as the  *)
(* end of WriteTree does, and ls-tree decodes it.  input is the list.      *)
(***************************************************************************)
Hash32 == [i \in 1..HashLen |-> 32]
Hash00 == [i \in 1..HashLen |-> 0]
NameAB == <<97, 32, 98>>                               \* "a b"

TreeEntrySet ==
    { [Perm |-> <<49, 48, 48, 54, 52, 52>>, Name |-> NameA, Hash |-> Digest(0)],
      [Perm |-> <<49, 48, 48, 55, 53, 53>>, Name |-> NameAB, Hash |-> Hash32],
      [Perm |-> dirPerm, Name |-> NameD, Hash |-> Hash00],
      [Perm |-> <<49, 50, 48, 48, 48, 48>>, Name |-> NameB, Hash |-> Digest(1)],
      [Perm |-> <<49, 54, 48, 48, 48, 48>>, Name |-> NameX, Hash |-> Digest(288)],
      [Perm |-> <<49, 48, 48, 54, 52, 52>>, Name |-> NameB, Hash |-> Hash00] }

Rest(f, in) ==
    /\ fs = f
    /\ readOnly = FALSE
    /\ sha1tab = <<>>
    /\ shaToObj = <<>>
    /\ last = NoRun
    /\ written = {}
    /\ input = in
    /\ clonePc = "idle"
    /\ steps = 0
    /\ pack = NoPack

TreeInit == \E T \in SeqsUpTo(TreeEntrySet, MaxEntries) : Rest(MkFs({}), T)

\* The entries are serialized and the tree object is written.
StoreTree ==
    /\ steps < MaxSteps
    /\ written = {}
    /\ Finish("store-tree", <<>>, WriteTreeStore([Start EXCEPT !.ret = input]))
    /\ UNCHANGED <<shaToObj, clonePc, pack>>

\* ls-tree <sha> on a tree of the store.
LsTreeCmd ==
    /\ steps < MaxSteps
    /\ \E treeSha \in ShasOf(written, StrTree) :
        Finish("ls-tree", treeSha, ListTree(Start, <<>>, treeSha))
    /\ UNCHANGED <<shaToObj, clonePc, pack>>

TreeNext ==
    \/ StoreTree
    \/ LsTreeCmd

SpecTree == TreeInit /\ [][TreeNext]_vars

(* C7: decoding the encoding of a list of (mode, name, 20-byte hash)       *)
(* entries yields the same entries in the same order, for modes 120000 and *)
(* 160000 and hash bytes 0x20 and 0x00 too.                                *)
C7_TreeRoundTrip ==
    last.cmd = "ls-tree" => last.exit = 0 /\ last.ret = input

\* A list with a gitlink or symlink entry and an all-0x20 or all-0x00 hash
\* was stored and decoded.
C7_Witness ==
    /\ last.cmd = "ls-tree"
    /\ Len(input) = 2
    /\ \E i \in 1..2 : input[i].Perm \in {<<49, 50, 48, 48, 48, 48>>, <<49, 54, 48, 48, 48, 48>>}
    /\ \E i \in 1..2 : input[i].Hash \in {Hash32, Hash00}

(***************************************************************************)
(* The truncated-tree specification: the encoding of a list, cut short by  *)
(* input.drop bytes, arrives as a tree object of a clone and is decoded by *)
(* ls-tree and by parseTree.                                               *)
(***************************************************************************)
Drops == {0, 1, 15, 20, 21, 22, 25}

CutEntrySet ==
    { [Perm |-> <<49, 48, 48, 54, 52, 52>>, Name |-> NameA, Hash |-> Digest(0)],
      [Perm |-> dirPerm, Name |-> NameD, Hash |-> Hash32],
      [Perm |-> <<49, 48, 48, 55, 53, 53>>, Name |-> NameAB, Hash |-> Digest(1)] }

\* The payload of the tree object that arrives.
CutPayload(in) == SubSeq(TreeEntries(in.T), 1, Len(TreeEntries(in.T)) - in.drop)

TreeCutInit ==
    \E T \in SeqsUpTo(CutEntrySet, MaxEntries), drop \in Drops :
        /\ drop <= Len(TreeEntries(T))
        /\ Rest(MkFs({}), [T |-> T, drop |-> drop])

\* saveObj and writeFetchedObjects on the tree object.
FetchTree ==
    /\ steps < MaxSteps
    /\ written = {}
    /\ LET o == [Type |-> OBJECT_TREE, Buf |-> CutPayload(input)]
           S == saveObj(Start, o)
           R == writeFetchedObjects(S.P, <<>>, <<calcSHA1(sha1tab, wrappedBuf(o).buf)>>)
       IN  Finish("fetch-tree", <<>>, IF R.ok THEN R.P ELSE must(R.P))
    /\ UNCHANGED <<shaToObj, clonePc, pack>>

\* readObjectContent of cmd/mygit/git.go.
readObjectContent(P, repoPath, objSha) ==
    LET r == ReadFile(P.fs, Join(repoPath, objectPath(objSha)))
        z == decompressZlib(r.data)
        objectType == readUntil(z.data, SP)
        objectSizeStr == readUntil(objectType.rest, NUL)
        digits == objectSizeStr.result
        signed == digits # <<>> /\ digits[1] \in {43, 45}
        num == IF signed THEN Tail(digits) ELSE digits
        size == SumSeq([i \in 1..Len(num) |-> (num[i] - 48) * 10 ^ (Len(num) - i)])
        fail == [P EXCEPT !.err = TRUE, !.ret = <<>>]
    IN  IF Len(objSha) < 2 THEN panic(P)
        ELSE IF ~r.ok \/ ~z.ok \/ ~objectType.ok \/ ~objectSizeStr.ok THEN fail
        ELSE IF num = <<>> \/ \E i \in 1..Len(num) : num[i] \notin 48..57 THEN fail
        ELSE IF signed /\ digits[1] = 45 /\ size > 0 THEN panic(P)
        ELSE IF Len(objectSizeStr.rest) < size THEN fail
        ELSE [P EXCEPT !.ret = SubSeq(objectSizeStr.rest, 1, size)]

\* The start of traverseTree: readObjectContent, then parseTree.
ParseTreeCmd ==
    /\ steps < MaxSteps
    /\ \E treeSha \in ShasOf(written, StrTree) :
        LET Q == readObjectContent(Start, <<>>, treeSha)
            t == parseTree(Q.ret, <<>>)
        IN  Finish("parse-tree", treeSha,
                   IF Q.err THEN Q
                   ELSE IF t.ok THEN [Q EXCEPT !.ret = t.children]
                   ELSE [Q EXCEPT !.err = TRUE, !.ret = <<>>])
    /\ UNCHANGED <<shaToObj, clonePc, pack>>

TreeCutNext ==
    \/ FetchTree
    \/ LsTreeCmd
    \/ ParseTreeCmd

SpecTreeCut == TreeCutInit /\ [][TreeCutNext]_vars

\* The payload ends between two entries of the list it was cut from.
EndsBetweenEntries(in) ==
    \E j \in 0..Len(in.T) : Len(CutPayload(in)) = Len(TreeEntries(SubSeq(in.T, 1, j)))

(* C8: decoding a tree payload that ends inside an entry (in the mode, in  *)
(* the name, or before the 20th hash byte) fails and yields no entries.    *)
C8_PartialEntryIsCorrupt ==
    (last.cmd \in {"ls-tree", "parse-tree"} /\ ~EndsBetweenEntries(input)) =>
        last.err /\ last.ret = <<>>

\* ls-tree succeeded on a payload that ends after five hash bytes.
C8_Witness ==
    /\ last.cmd = "ls-tree"
    /\ input.drop = 15
    /\ last.exit = 0
    /\ Len(last.ret) = Len(input.T)

(***************************************************************************)
(* The read specification: the store holds one object file, written by any *)
(* tool or damaged since, at the address of its envelope (or the file is   *)
(* missing), and the object is read by cat-file and by readObjectContent.  *)
(* input is [env, present].                                                *)
(***************************************************************************)
ReadPayloads == {<<>>, <<97, 98>>, <<97, 0, 32>>}

\* The size fields: the length of the payload, one more, one less, "x", "".
SizeFields(payload) ==
    {Itoa(Len(payload)), Itoa(Len(payload) + 1), <<120>>, <<>>}
        \cup (IF payload = <<>> THEN {} ELSE {Itoa(Len(payload) - 1)})

Envelopes ==
    UNION {{StrBlob \o sp \o size \o nul \o payload :
                sp \in {<<SP>>, <<>>}, nul \in {<<NUL>>, <<>>}, size \in SizeFields(payload)} :
           payload \in ReadPayloads}

ReadInit ==
    \E env \in Envelopes, present \in BOOLEAN :
        /\ fs = IF present
                THEN MkFs({File(objectPath(calcSHA1(<<>>, env)), compressZlib(env), 292)})
                ELSE MkFs({File(<<StrGit, StrHEAD>>, headFileContents, 420)})
        /\ readOnly = FALSE
        /\ sha1tab = sha1Learn(<<>>, env)
        /\ shaToObj = <<>>
        /\ last = NoRun
        /\ written = {}
        /\ input = [env |-> env, present |-> present]
        /\ clonePc = "idle"
        /\ steps = 0
        /\ pack = NoPack

\* cat-file -p <sha>
CatFileCmd ==
    /\ steps < MaxSteps
    /\ LET objectSha == calcSHA1(sha1tab, input.env)
       IN  Finish("cat-file", objectSha, CatFile(Start, <<>>, objectSha))
    /\ UNCHANGED <<shaToObj, clonePc, pack>>

ReadObjectContent ==
    /\ steps < MaxSteps
    /\ LET objSha == calcSHA1(sha1tab, input.env)
       IN  Finish("read-object", objSha, readObjectContent(Start, <<>>, objSha))
    /\ UNCHANGED <<shaToObj, clonePc, pack>>

ReadNext ==
    \/ CatFileCmd
    \/ ReadObjectContent

SpecRead == ReadInit /\ [][ReadNext]_vars

IsDecimal(s) == s # <<>> /\ \A i \in 1..Len(s) : s[i] \in 48..57

\* The envelope is <kind> SP <decimal length of payload> NUL <payload>.
WellFormed(env) ==
    \E i \in 1..Len(env) :
        /\ env[i] = NUL
        /\ \A k \in 1..(i - 1) : env[k] # NUL
        /\ \E j \in 1..(i - 1) :
            /\ env[j] = SP
            /\ \A k \in 1..(j - 1) : env[k] # SP
            /\ IsDecimal(SubSeq(env, j + 1, i - 1))
            /\ SubSeq(env, j + 1, i - 1) = Itoa(Len(env) - i)

(* C4: reading fails when the object file is missing, and fails without a  *)
(* payload when the stored envelope has no 0x00, no space in its header, a *)
(* size that is not decimal, or a size other than the payload's length.    *)
C4_ReadRejectsCorrupt ==
    last.cmd \in {"cat-file", "read-object"} =>
        /\ ~input.present => last.err
        /\ (input.present /\ ~WellFormed(input.env)) => last.err /\ last.ret = <<>>

\* cat-file succeeded on an envelope whose size is not the payload's length.
C4_Witness ==
    /\ last.cmd = "cat-file"
    /\ input.present
    /\ input.env = StrBlob \o <<SP, 51, NUL, 97, 98>>
    /\ last.exit = 0
    /\ last.ret = <<97, 98>>

(***************************************************************************)
(* The command-line specification: main, run on an argument vector, on a   *)
(* file system that an administrator may remount read-only.  args is       *)
(* os.Args: args[1] is the program's name, so os.Args[k] is args[k + 1].   *)
(***************************************************************************)
MaxCliSteps == 3

\* Clone where the remote does not answer: Init, then must(err).
CloneUnreachable(P, repo, localDir) == must(Init(P, localDir))

main(P, args, now, zone) ==
    IF Len(args) < 2 THEN must(P)
    ELSE LET command == args[2] IN
         IF command = "init" THEN Init(P, <<>>)
         ELSE IF command = "cat-file"
              THEN IF Len(args) < 4 THEN panic(P) ELSE CatFile(P, <<>>, args[4])
         ELSE IF command = "hash-object"
              THEN IF Len(args) < 4 THEN panic(P) ELSE HashObject(P, args[4])
         ELSE IF command = "ls-tree"
              THEN IF Len(args) < 4 THEN panic(P) ELSE ListTree(P, <<>>, args[4])
         ELSE IF command = "write-tree" THEN WriteTree(P, <<>>)
         ELSE IF command = "commit-tree"
              THEN IF Len(args) < 7 THEN panic(P)
                   ELSE CommitTree(P, args[3], args[5], args[7], now, zone)
         ELSE IF command = "clone"
              THEN IF Len(args) < 4 THEN panic(P)
                   ELSE CloneUnreachable(P, args[3], args[4])
         ELSE must(P)

\* A file that is no zlib stream, at the address "ffff...f".
Garbage == File(objectPath(BogusSha), <<1, 2, 3>>, 292)

CliFs ==
    { MkFs({}),
      MkFs({File(<<NameA>>, <<97, 0>>, 420), File(<<NameD, NameA>>, <<>>, 420)}),
      MkFs({File(<<StrGit, StrHEAD>>, headFileContents, 420), File(<<NameA>>, <<97>>, 420),
            Garbage}) }

CliInit == \E f \in CliFs : Rest(f, <<>>)

\* The SHAs a user may pass: of objects written, of no object, and one digit.
CliShas == {w.sha : w \in written} \cup {BogusSha, <<102>>}

CliArgs ==
    {<<"mygit">>, <<"mygit", "init">>, <<"mygit", "write-tree">>, <<"mygit", "status">>,
     <<"mygit", "cat-file", "-p">>, <<"mygit", "hash-object", "-w">>,
     <<"mygit", "ls-tree", "--name-only">>, <<"mygit", "clone", "url">>,
     <<"mygit", "clone", "url", CloneDir>>,
     <<"mygit", "hash-object", "-w", <<NameA>>>>, <<"mygit", "hash-object", "-w", <<NameX>>>>}
    \cup {<<"mygit", "cat-file", "-p", sha>> : sha \in CliShas}
    \cup {<<"mygit", "ls-tree", "--name-only", sha>> : sha \in CliShas}
    \cup {<<"mygit", "commit-tree", sha>> : sha \in TreeArgs}
    \cup {<<"mygit", "commit-tree", sha, "-p", BogusSha, "-m", StrInit>> : sha \in TreeArgs}

Run ==
    /\ steps < MaxCliSteps
    /\ \E args \in CliArgs : Finish("main", args, main(Start, args, Clock, StrUTC))
    /\ UNCHANGED <<shaToObj, clonePc, pack>>

\* The file system is remounted read-only, or read-write again.
Remount ==
    /\ steps < MaxCliSteps
    /\ readOnly' = ~readOnly
    /\ last' = [NoRun EXCEPT !.cmd = "remount", !.had = fs]
    /\ steps' = steps + 1
    /\ UNCHANGED <<fs, sha1tab, shaToObj, written, input, clonePc, pack>>

CliNext ==
    \/ Run
    \/ Remount

SpecCli == CliInit /\ [][CliNext]_vars

(* C6: a command exits with code 0 if and only if the operation met no     *)
(* error, and every error (a directory or file that cannot be written, a   *)
(* missing object, missing arguments, a decode failure, a remote that does *)
(* not answer) makes it exit with code 1.                                  *)
C6_ExitCode ==
    last.cmd = "main" =>
        /\ (last.exit = 0) <=> ~last.err
        /\ last.err => last.exit = 1

\* init printed its errors on a read-only file system and exited with 0.
C6_Witness ==
    /\ last.cmd = "main"
    /\ last.arg = <<"mygit", "init">>
    /\ readOnly
    /\ last.err
    /\ last.exit = 0
    /\ <<StrGit>> \notin DOMAIN fs

(***************************************************************************)
(* Further properties of the store specification.                          *)
(***************************************************************************)
(* C11: write-tree run again on an unchanged working directory returns the *)
(* same root tree SHA, and leaves the set of loose objects and the bytes   *)
(* of each one as they were.                                               *)
C11_WriteTreeIdempotent ==
    [][(last.cmd = "write-tree" /\ last.exit = 0 /\ last'.cmd = "write-tree") =>
            /\ last'.exit = 0
            /\ last'.ret = last.ret
            /\ ObjectFiles(fs') = ObjectFiles(fs)
            /\ \A p \in ObjectFiles(fs) : fs'[p] = fs[p]]_vars

\* write-tree ran on a directory whose objects, a tree with a subtree among
\* them, were all in the store already, and changed nothing.
C11_Witness ==
    /\ last.cmd = "write-tree"
    /\ last.exit = 0
    /\ Cardinality(last.log) >= 4
    /\ \A w \in last.log : Join(w.root, objectPath(w.sha)) \in ObjectFiles(last.had)
    /\ fs = last.had

\* "parent "
StrParent == <<112, 97, 114, 101, 110, 116, 32>>

\* The positions at which the lines of the text p whose first bytes are pre start.
LinesWith(p, pre) ==
    {i \in 1..Len(p) : /\ i = 1 \/ p[i - 1] = 10
                       /\ i + Len(pre) - 1 <= Len(p)
                       /\ SubSeq(p, i, i + Len(pre) - 1) = pre}

EndsWith(p, suf) ==
    Len(p) >= Len(suf) /\ SubSeq(p, Len(p) - Len(suf) + 1, Len(p)) = suf

(* C13: the payload of the commit that commit-tree writes has no parent    *)
(* line when no parent is given; with a parent it has exactly one line     *)
(* "parent <sha>", directly after the line "tree <sha>"; and it ends with  *)
(* a blank line, the message and a newline.                                *)
C13_CommitPayload ==
    last.cmd = "commit-tree" =>
        \A w \in last.log :
            LET treeSha == last.arg[1]
                parentSha == last.arg[2]
                treeLine == <<116, 114, 101, 101, 32>> \o treeSha \o <<10>>
            IN  /\ SubSeq(w.payload, 1, Len(treeLine)) = treeLine
                /\ IF parentSha = <<>>
                   THEN LinesWith(w.payload, SubSeq(StrParent, 1, 6)) = {}
                   ELSE /\ LinesWith(w.payload, SubSeq(StrParent, 1, 6)) = {Len(treeLine) + 1}
                        /\ LinesWith(w.payload, StrParent \o parentSha \o <<10>>)
                               = {Len(treeLine) + 1}
                /\ EndsWith(w.payload, <<10, 10>> \o StrInit \o <<10>>)

\* commit-tree without a parent wrote a commit whose second line is "parent ".
C13_Witness ==
    /\ last.cmd = "commit-tree"
    /\ last.exit = 0
    /\ last.arg[2] = <<>>
    /\ \E w \in last.log :
          /\ w.kind = StrCommit
          /\ LinesWith(w.payload, StrParent \o <<10>>) = {Len(last.arg[1]) + 7}
          /\ ReadBack(<<>>, w.sha) = [ok |-> TRUE, kind |-> StrCommit, payload |-> w.payload]

(***************************************************************************)
(* Further properties of the command-line specification.                   *)
(***************************************************************************)
(* C12: write-tree aborts on any I/O error: when listing a directory,      *)
(* reading a file or writing a blob or a tree fails, the run does not end  *)
(* as a success that returns a root tree hash.                             *)
C12_WriteTreeAborts ==
    (last.cmd = "main" /\ last.arg = <<"mygit", "write-tree">> /\ last.err) =>
        ~(last.exit = 0 /\ Len(last.ret) = 2 * HashLen)

\* write-tree on a read-only file system whose object directories exist:
\* no object file could be written, a root hash was printed, exit code 0.
C12_Witness ==
    /\ last.cmd = "main"
    /\ last.arg = <<"mygit", "write-tree">>
    /\ readOnly
    /\ last.log # {}
    /\ last.err
    /\ last.exit = 0
    /\ Len(last.ret) = 2 * HashLen
    /\ fs = last.had

(***************************************************************************)
(* The pack decoder of clone.  A reader is the sequence of the bytes not   *)
(* yet read.  A decoding function returns ok = FALSE with the error why    *)
(* when the code returns an error.                                         *)
(***************************************************************************)
\* readObjectTypeAndLen, the loop over the bytes after the first:
\* num += int(b) << (4 + 7*i), until a byte without the top bit.
RECURSIVE readLenLoop(_, _, _)
readLenLoop(reader, num, i) ==
    IF reader = <<>> THEN [ok |-> FALSE, num |-> 0, rest |-> <<>>]
    ELSE LET b == Head(reader)
             n == num + b * 2^(4 + 7 * i)
         IN  IF b % 256 < 128 THEN [ok |-> TRUE, num |-> n, rest |-> Tail(reader)]
             ELSE readLenLoop(Tail(reader), n, i + 1)

readObjectTypeAndLen(reader) ==
    IF reader = <<>> THEN [ok |-> FALSE, objType |-> 0, objLen |-> 0, rest |-> <<>>]
    ELSE LET b == Head(reader) % 256
             objType == (b % 128) \div 16
             l == IF b < 128 THEN [ok |-> TRUE, num |-> b % 16, rest |-> Tail(reader)]
                  ELSE readLenLoop(Tail(reader), b % 16, 0)
         IN  [ok |-> l.ok, objType |-> IF l.ok THEN objType ELSE 0,
              objLen |-> l.num, rest |-> l.rest]

\* readSha: reader.Read fills up to 20 bytes and fails only at the end of
\* the input; the bytes not filled stay zero.
readSha(reader) ==
    LET n == MinOf({HashLen, Len(reader)})
    IN  IF reader = <<>> THEN [ok |-> FALSE, sha |-> <<>>, rest |-> <<>>]
        ELSE [ok |-> TRUE, sha |-> EncodeToString(Hash20(SubSeq(reader, 1, n))),
              rest |-> SubSeq(reader, n + 1, Len(reader))]

\* decompressObject: inflates the zlib stream at the head of the reader and
\* leaves the reader behind the checksum of the stream.
decompressObject(reader) ==
    IF /\ Len(reader) >= 4
       /\ reader[1] = 120 /\ reader[2] = 156
       /\ Len(reader) >= reader[3] + 4
       /\ reader[reader[3] + 4] = Adler(SubSeq(reader, 4, reader[3] + 3))
    THEN [ok |-> TRUE, data |-> SubSeq(reader, 4, reader[3] + 3),
          rest |-> SubSeq(reader, reader[3] + 5, Len(reader))]
    ELSE [ok |-> FALSE, data |-> <<>>, rest |-> <<>>]

\* binary.ReadUvarint: groups of seven bits, the low group first.
RECURSIVE ReadUvarint(_, _, _)
ReadUvarint(reader, i, x) ==
    IF i = 10 \/ reader = <<>> THEN [ok |-> FALSE, val |-> x, rest |-> reader]
    ELSE LET b == Head(reader)
         IN  IF b < 128
             THEN IF i = 9 /\ b > 1 THEN [ok |-> FALSE, val |-> x, rest |-> Tail(reader)]
                  ELSE [ok |-> TRUE, val |-> x + b * 2^(7 * i), rest |-> Tail(reader)]
             ELSE ReadUvarint(Tail(reader), i + 1, x + (b % 128) * 2^(7 * i))

\* The two loops of a copy instruction: for i in lo..hi-1, when bit i of
\* firstByte is set, the next byte b adds int(b) << ((i - lo) * 8).
RECURSIVE readSelected(_, _, _, _, _, _)
readSelected(reader, firstByte, lo, i, hi, acc) ==
    IF i = hi THEN [ok |-> TRUE, val |-> acc, rest |-> reader]
    ELSE IF (firstByte \div 2^i) % 2 = 0
    THEN readSelected(reader, firstByte, lo, i + 1, hi, acc)
    ELSE IF reader = <<>> THEN [ok |-> FALSE, val |-> 0, rest |-> <<>>]
    ELSE readSelected(Tail(reader), firstByte, lo, i + 1, hi,
                      acc + Head(reader) * 2^((i - lo) * 8))

\* The first size bytes of the base, whatever the offset.
baseSliceAtStart(Buf, offset, size, oob) == [ok |-> TRUE, bytes |-> SubSeq(Buf, 1, size)]

\* baseObj.Buf[offset : offset+size].  Within the length of the slice these
\* are its bytes.  Beyond the length Go checks the bound against the capacity
\* of the slice, which depends on how the buffer grew: the expression panics
\* (oob = "panic") or yields the zero bytes behind the length (oob = "zeros").
baseSlice(Buf, offset, size, oob) ==
    IF offset + size <= Len(Buf)
    THEN [ok |-> TRUE, bytes |-> SubSeq(Buf, offset + 1, offset + size)]
    ELSE IF oob = "panic" THEN [ok |-> FALSE, bytes |-> <<>>]
    ELSE [ok |-> TRUE,
          bytes |-> [k \in 1..size |-> IF offset + k <= Len(Buf) THEN Buf[offset + k] ELSE 0]]

\* The loop of readDeltified over the instructions.
RECURSIVE deltaLoop(_, _, _, _)
deltaLoop(reader, Buf, result, oob) ==
    IF reader = <<>> THEN [ok |-> TRUE, halt |-> "", result |-> result]
    ELSE LET firstByte == Head(reader)
             n == firstByte % 128
             offset == readSelected(Tail(reader), firstByte, 0, 0, 4, 0)
             size == readSelected(offset.rest, firstByte, 4, 4, 7, 0)
             piece == baseSlice(Buf, offset.val, size.val, oob)
         IN  IF firstByte < 128
             THEN IF Len(reader) - 1 < n THEN [ok |-> FALSE, halt |-> "", result |-> <<>>]
                  ELSE deltaLoop(SubSeq(reader, n + 2, Len(reader)), Buf,
                                 result \o SubSeq(reader, 2, n + 1), oob)
             ELSE IF ~offset.ok \/ ~size.ok THEN [ok |-> FALSE, halt |-> "", result |-> <<>>]
             ELSE IF ~piece.ok THEN [ok |-> FALSE, halt |-> "panic", result |-> <<>>]
             ELSE deltaLoop(size.rest, Buf, result \o piece.bytes, oob)

\* A check that never finds a mismatch.
lenMismatchNever(result, dstObjLen) == FALSE

\* result.Len() != int(dstObjLen)
lenMismatch(result, dstObjLen) == Len(result) # dstObjLen

readDeltified(reader, Buf, oob) ==
    LET srcObjLen == ReadUvarint(reader, 0, 0)
        dstObjLen == ReadUvarint(srcObjLen.rest, 0, 0)
        d == deltaLoop(dstObjLen.rest, Buf, <<>>, oob)
        no(why, halt) == [ok |-> FALSE, why |-> why, halt |-> halt, buf |-> <<>>]
    IN  IF ~srcObjLen.ok \/ ~dstObjLen.ok THEN no("EOF", "")
        ELSE IF d.halt # "" THEN no("", d.halt)
        ELSE IF ~d.ok THEN no("EOF", "")
        ELSE IF lenMismatch(d.result, dstObjLen.val) THEN no("invalid deltified buf", "")
        ELSE [ok |-> TRUE, why |-> "", halt |-> "", buf |-> d.result]

\* A map in which every SHA is found.
lookupAny(map, sha) ==
    [ok |-> TRUE,
     obj |-> IF sha \in DOMAIN map THEN map[sha] ELSE [Type |-> OBJECT_BLOB, Buf |-> <<>>]]

\* baseObj, ok := shaToObj[baseObjSha]
lookup(map, sha) ==
    IF sha \in DOMAIN map THEN [ok |-> TRUE, obj |-> map[sha]]
    ELSE [ok |-> FALSE, obj |-> [Type |-> 0, Buf |-> <<>>]]

\* No type is left out.
isUnsupportedNone(objType) == FALSE

\* case OBJECT_OFS_DELTA
isUnsupported(objType) == objType = OBJECT_OFS_DELTA

\* readObject: one object of the pack is read and, when it decodes, saved
\* in the map.  rest is the reader after it.
readObject(P, reader, oob) ==
    LET h == readObjectTypeAndLen(reader)
        no(why) == [P |-> errorf(P, why), ok |-> FALSE, rest |-> <<>>]
        save(o, rest) ==
            LET s == saveObj(P, o)
            IN  IF s.ok THEN [P |-> s.P, ok |-> TRUE, rest |-> rest]
                ELSE [P |-> errorf(s.P, "unknown type"), ok |-> FALSE, rest |-> <<>>]
    IN  IF ~h.ok THEN no("EOF")
        ELSE IF h.objType = OBJECT_REF_DELTA
        THEN LET baseObjSha == readSha(h.rest)
                 baseObj == lookup(P.map, baseObjSha.sha)
                 decompressed == decompressObject(baseObjSha.rest)
                 deltified == readDeltified(decompressed.data, baseObj.obj.Buf, oob)
             IN  IF ~baseObjSha.ok THEN no("EOF")
                 ELSE IF ~baseObj.ok THEN no("unknown obj sha")
                 ELSE IF ~decompressed.ok THEN no("zlib")
                 ELSE IF deltified.halt # "" THEN [P |-> panic(P), ok |-> FALSE, rest |-> <<>>]
                 ELSE IF ~deltified.ok THEN no(deltified.why)
                 ELSE save([Type |-> baseObj.obj.Type, Buf |-> deltified.buf],
                           decompressed.rest)
        ELSE IF isUnsupported(h.objType) THEN no("Unsupported")
        ELSE LET decompressed == decompressObject(h.rest)
             IN  IF ~decompressed.ok THEN no("zlib")
                 ELSE save([Type |-> h.objType, Buf |-> decompressed.data], decompressed.rest)

(***************************************************************************)
(* clone: the two requests to the remote, the reference, the check-out.    *)
(***************************************************************************)
StrMaster == <<109, 97, 115, 116, 101, 114>>           \* "master"

\* packetLine: "%04x%s" of len(rawLine) + 4 and rawLine.
packetLine(rawLine) ==
    LET size == Len(rawLine) + 4
    IN  <<HexDigit((size \div 4096) % 16), HexDigit((size \div 256) % 16),
          HexDigit((size \div 16) % 16), HexDigit(size % 16)>> \o rawLine

\* readPacketLine.  reader.Read fails only at the end of the input, and a
\* short read leaves zero bytes; strconv.ParseInt takes hex digits after an
\* optional sign; make([]byte, length-4) panics for a negative length.
readPacketLine(reader) ==
    LET lengthInHex == [i \in 1..4 |-> IF i <= Len(reader) THEN reader[i] ELSE 0]
        signed == lengthInHex[1] \in {43, 45}
        digits == IF signed THEN Tail(lengthInHex) ELSE lengthInHex
        abs == SumSeq([i \in 1..Len(digits) |->
                          HexValue(digits[i]) * 16 ^ (Len(digits) - i)])
        length == IF lengthInHex[1] = 45 THEN 0 - abs ELSE abs
        after == SubSeq(reader, 5, Len(reader))
        n == MinOf({length - 4, Len(after)})
        no(halt) == [ok |-> FALSE, halt |-> halt, data |-> <<>>, rest |-> <<>>]
    IN  IF reader = <<>> THEN no("")
        ELSE IF \E i \in 1..Len(digits) : HexValue(digits[i]) < 0 THEN no("")
        ELSE IF length = 0 THEN [ok |-> TRUE, halt |-> "", data |-> <<>>, rest |-> after]
        ELSE IF length < 4 THEN no("panic")
        ELSE IF after = <<>> THEN no("")
        ELSE [ok |-> TRUE, halt |-> "",
              data |-> [i \in 1..(length - 4) |-> IF i <= n THEN after[i] ELSE 0],
              rest |-> SubSeq(after, n + 1, Len(after))]

\* fetchLatestCommitHash on the body of the answer to GET info/refs: the
\* service line, the flush, and the line of HEAD, each under must.
fetchLatestCommitHash(P, body) ==
    LET service == readPacketLine(body)
        flush == readPacketLine(service.rest)
        head == readPacketLine(flush.rest)
        bad == IF ~service.ok THEN service ELSE IF ~flush.ok THEN flush ELSE head
    IN  IF ~bad.ok THEN (IF bad.halt = "panic" THEN panic(P) ELSE must(P))
        ELSE [P EXCEPT !.ret = Cut(head.data, SP).head]

writeBranchRefFile(P, localRepo, branch, commitSha) ==
    LET heads == <<104, 101, 97, 100, 115>>             \* "heads"
        refFilePath == Join(localRepo, <<StrGit, StrRefs, heads, branch>>)
        m == MkdirAll(P.fs, P.ro, Dir(refFilePath), 493)
        w == WriteFile(m.fs, P.ro, refFilePath, commitSha, 420)
    IN  IF ~m.ok THEN errorf(P, "mkdir")
        ELSE IF ~w.ok THEN errorf([P EXCEPT !.fs = m.fs], "write")
        ELSE [P EXCEPT !.fs = w.fs]

\* fetchPackfile on the body of the answer to POST git-upload-pack:
\* result.Bytes()[8:], which panics on a body of fewer than 8 bytes.
fetchPackfile(body) ==
    IF Len(body) < 8 THEN [ok |-> FALSE, packfileBuf |-> <<>>]
    ELSE [ok |-> TRUE, packfileBuf |-> SubSeq(body, 9, Len(body))]

\* binary.BigEndian.Uint32
Uint32(b) == ((b[1] * 256 + b[2]) * 256 + b[3]) * 256 + b[4]

\* A check that accepts every trailer.
checksumAny(tab, packfileBuf) == TRUE

\* bytes.Equal(storedChecksum, actualChecksum[:])
checksumOk(tab, packfileBuf) ==
    LET n == Len(packfileBuf)
    IN  SubSeq(packfileBuf, n - HashLen + 1, n) = sha1Sum(tab, SubSeq(packfileBuf, 1, n - HashLen))

\* fetchObjects up to its loop: the packfile is fetched, its header read and
\* its trailer verified.  A buffer shorter than the trailer ends in a panic,
\* at the header or at packfileBuf[len(packfileBuf)-20:].
fetchObjectsOpen(P, body) ==
    LET f == fetchPackfile(body)
        packfileBuf == f.packfileBuf
        n == Len(packfileBuf)
        numObjects == Uint32(SubSeq(packfileBuf, 9, 12))
        Q == [P EXCEPT !.tab = sha1Learn(P.tab, SubSeq(packfileBuf, 1, n - HashLen))]
    IN  IF ~f.ok \/ n < HashLen THEN [P |-> panic(P), ok |-> FALSE, reader |-> <<>>, left |-> 0]
        ELSE IF ~checksumOk(P.tab, packfileBuf)
        THEN [P |-> errorf(Q, "checksum"), ok |-> FALSE, reader |-> <<>>, left |-> 0]
        ELSE [P |-> Q, ok |-> TRUE, reader |-> SubSeq(packfileBuf, 13, n),
              left |-> numObjects]

isBlob(perm) == Len(perm) >= 3 /\ SubSeq(perm, 1, 3) = <<49, 48, 48>>

\* Every entry is put directly below the root.
childPathFlat(curDir, Name) == <<Name>>

\* filepath.Join(curDir, string(child.Name))
childPath(curDir, Name) == Join(curDir, <<Name>>)

\* The loop of restoreTree over the entries of a tree; an entry that is no
\* blob is restored by the recursive call of restoreTree (ListTree, loop).
RECURSIVE restoreEntries(_, _, _, _)
restoreEntries(P, repoPath, curDir, entries) ==
    IF P.halt # "" \/ entries = <<>> THEN P
    ELSE LET child == Head(entries)
             sha == EncodeToString(child.Hash)
             blob == CatFile(P, repoPath, sha)
             filename == Join(repoPath, childPath(curDir, child.Name))
             tree == ListTree(P, repoPath, sha)
         IN  IF isBlob(child.Perm)
             THEN IF blob.halt # "" THEN blob
                  ELSE restoreEntries(writeFile(blob, filename, blob.ret),
                                      repoPath, curDir, Tail(entries))
             ELSE restoreEntries(
                      restoreEntries(tree, repoPath, childPath(curDir, child.Name), tree.ret),
                      repoPath, curDir, Tail(entries))

restoreTree(P, repoPath, curDir, treeSha) ==
    LET tree == ListTree(P, repoPath, treeSha)
    IN  restoreEntries(tree, repoPath, curDir, tree.ret)

\* restoreRepository: an error it returns ends the process in Clone, under must.
restoreRepository(P, repoPath, commitSha) ==
    LET commit == CatFile(P, repoPath, commitSha)
        treePrefix == readUntil(commit.ret, SP)
        treeSha == readUntil(treePrefix.rest, 10)
    IN  IF commit.halt # "" THEN commit
        ELSE IF ~treePrefix.ok THEN must(errorf(commit, "EOF"))
        ELSE IF treePrefix.result # StrTree THEN must(errorf(commit, "invalid commit blob"))
        ELSE IF ~treeSha.ok THEN must(errorf(commit, "EOF"))
        ELSE restoreTree(commit, repoPath, <<>>, treeSha.result)

(***************************************************************************)
(* The remote of clone: a repository served by git over smart HTTP.  Its   *)
(* objects are those of a working tree and of one commit; its answers are  *)
(* the advertisement of references and the upload-pack response, a         *)
(* packet-line followed by the packfile.                                   *)
(***************************************************************************)
\* The variable-length integer that binary.ReadUvarint reads.
RECURSIVE PutUvarint(_)
PutUvarint(n) == IF n < 128 THEN <<n>> ELSE <<128 + (n % 128)>> \o PutUvarint(n \div 128)

\* The header of a pack entry of type t and size n.
PutTypeAndLen(t, n) ==
    IF n < 16 THEN <<16 * t + n>>
    ELSE <<128 + 16 * t + (n % 16)>> \o PutUvarint(n \div 16)

\* A delta instruction is [op |-> "insert", data] or [op |-> "copy", offset,
\* size]; a copy carries the non-zero bytes of its offset and of its size.
PutInstruction(c) ==
    IF c.op = "insert" THEN <<Len(c.data)>> \o c.data
    ELSE LET byte(v, i) == (v \div 2^(8 * i)) % 256
             o == {i \in 0..3 : byte(c.offset, i) # 0}
             z == {i \in 0..2 : byte(c.size, i) # 0}
             pick(v, S) == Flatten([i \in 1..4 |->
                               IF (i - 1) \in S THEN <<byte(v, i - 1)>> ELSE <<>>])
         IN  <<128 + SumSeq([i \in 1..4 |-> IF (i - 1) \in o THEN 2^(i - 1) ELSE 0])
                   + SumSeq([i \in 1..3 |-> IF (i - 1) \in z THEN 2^(i + 3) ELSE 0])>>
             \o pick(c.offset, o) \o pick(c.size, z)

PutDelta(srcLen, dstLen, instructions) ==
    PutUvarint(srcLen) \o PutUvarint(dstLen)
    \o Flatten([i \in 1..Len(instructions) |-> PutInstruction(instructions[i])])

\* The working trees of the remotes, each with the two files of which the
\* pack may send one (target) as a delta of the other (base).
Remotes ==
    { [work |-> MkFs({File(<<NameA>>, <<97, 0>>, 420), File(<<NameD, NameB>>, <<97, 0, 98>>, 493)}),
       base |-> <<NameA>>, target |-> <<NameD, NameB>>,
       delta |-> <<[op |-> "copy", offset |-> 0, size |-> 2],
                   [op |-> "insert", data |-> <<98>>]>>],
      [work |-> MkFs({File(<<NameA>>, <<97>>, 420), File(<<NameB>>, <<98, 97>>, 420)}),
       base |-> <<NameA>>, target |-> <<NameB>>,
       delta |-> <<[op |-> "insert", data |-> <<98>>],
                   [op |-> "copy", offset |-> 0, size |-> 1]>>] }

\* How the pack sends the target: whole; as a ref-delta behind its base; as
\* a ref-delta ahead of its base; as an ofs-delta; as a ref-delta that
\* inserts the whole target after a copy of size 0; as a ref-delta whose
\* header states one byte more than its instructions produce; whole, with
\* an entry header that states one byte more than the data inflates to; as
\* a ref-delta of a blob (mid) that is itself sent as a ref-delta of base;
\* as a ref-delta behind its base, in a pack whose header counts one object
\* more than the pack holds; as a ref-delta behind its base whose one
\* instruction copies one byte more than the base has.
Variants ==
    {"plain", "delta", "deltaFirst", "ofs", "zeroCopy", "dstMismatch", "sizeMismatch",
     "chain", "countTooLarge", "copyBeyond"}

\* The objects of the remote repository: those that write-tree made of the
\* working tree (the process W after WriteTree), and the commit of its root.
RemoteObjects(W) ==
    LET put(payload, envelope) ==
            [commitSha |-> calcSHA1(W.tab, envelope),
             tab |-> sha1Learn(W.tab, envelope),
             objs |-> {[sha |-> w.sha, kind |-> w.kind, payload |-> w.payload] : w \in W.log}
                      \cup {[sha |-> calcSHA1(W.tab, envelope), kind |-> StrCommit,
                             payload |-> payload]}]
        commit(payload) == put(payload, wrapContent(payload, StrCommit))
    IN  commit(<<116, 114, 101, 101, 32>> \o W.ret \o <<10, 10>> \o StrInit \o <<10>>)

\* The order of the objects R in the pack: the SHAs in ascending order, the
\* target moved as the variant says.
PackOrder(R, variant, target) ==
    LET place(all, others) ==
            IF variant = "plain" THEN all
            ELSE IF variant = "deltaFirst" THEN <<target.sha>> \o others
            ELSE IF variant = "ofs" THEN <<Head(others), target.sha>> \o Tail(others)
            ELSE IF variant = "chain" THEN others \o <<R.mid.sha, target.sha>>
            ELSE Append(others, target.sha)
        moved(all) == place(all, SelectSeq(all, LAMBDA x : x # target.sha))
    IN  moved(SortNames({o.sha : o \in R.objs}))

\* The entries of the pack for the objects R of the remote r, in the order
\* of the pack: each object whole, but for the target of a variant with a
\* delta.
PackEntries(R, r, variant, base, target) ==
    LET type(kind) == IF kind = StrCommit THEN OBJECT_COMMIT
                      ELSE IF kind = StrTree THEN OBJECT_TREE ELSE OBJECT_BLOB
        whole(o) == PutTypeAndLen(type(o.kind), Len(o.payload)) \o compressZlib(o.payload)
        deltifiedOn(b, delta) ==
            IF variant = "ofs"
            THEN PutTypeAndLen(OBJECT_OFS_DELTA, Len(delta)) \o <<9>> \o compressZlib(delta)
            ELSE PutTypeAndLen(OBJECT_REF_DELTA, Len(delta))
                 \o DecodeString(b.sha).bytes \o compressZlib(delta)
        deltified(delta) == deltifiedOn(IF variant = "chain" THEN R.mid ELSE base, delta)
        middle == deltifiedOn(base,
                      PutDelta(Len(base.payload), Len(R.mid.payload),
                               <<[op |-> "copy", offset |-> 0, size |-> Len(base.payload)],
                                 [op |-> "insert", data |-> <<99>>]>>))
        sent == IF variant = "sizeMismatch"
                THEN PutTypeAndLen(OBJECT_BLOB, Len(target.payload) + 1)
                     \o compressZlib(target.payload)
                ELSE
                deltified(PutDelta(IF variant = "chain" THEN Len(R.mid.payload)
                                   ELSE Len(base.payload),
                    IF variant = "copyBeyond" THEN Len(base.payload) + 1
                    ELSE Len(target.payload) + (IF variant = "dstMismatch" THEN 1 ELSE 0),
                    IF variant = "zeroCopy"
                    THEN <<[op |-> "copy", offset |-> 0, size |-> 0],
                           [op |-> "insert", data |-> target.payload]>>
                    ELSE IF variant = "copyBeyond"
                    THEN <<[op |-> "copy", offset |-> 0, size |-> Len(base.payload) + 1]>>
                    ELSE r.delta))
        entries(order) ==
            Flatten([i \in 1..Len(order) |->
                IF order[i] = R.mid.sha THEN middle
                ELSE IF order[i] # target.sha \/ variant = "plain"
                THEN whole(CHOOSE o \in R.objs : o.sha = order[i])
                ELSE sent])
        counted(order) ==
            <<0, 0, 0, Len(order) + (IF variant = "countTooLarge" THEN 1 ELSE 0)>>
            \o entries(order)
    IN  counted(PackOrder(R, variant, target))

\* The two answers of the remote with the objects R and the packfile packed
\* (without its trailer): the advertisement and the upload-pack response.
RemoteAnswers(R, packed, line, good, known) ==
    LET sum == sha1Sum(R.tab, packed)
        \* "# service=git-upload-pack\n"
        service ==
            <<35, 32, 115, 101, 114, 118, 105, 99, 101, 61, 103, 105, 116, 45, 117, 112, 108, 111, 97, 100, 45, 112, 97, 99, 107, 10>>
        flush == <<48, 48, 48, 48>>                     \* "0000"
        \* " HEAD\x00multi_ack\n" and " refs/heads/master\n"
        headCaps == <<32, 72, 69, 65, 68, 0, 109, 117, 108, 116, 105, 95, 97, 99, 107, 10>>
        masterRef ==
            <<32, 114, 101, 102, 115, 47, 104, 101, 97, 100, 115, 47, 109, 97, 115, 116, 101, 114, 10>>
        nak == <<78, 65, 75, 10>>                        \* "NAK\n"
        ack == <<65, 67, 75, 32>>                         \* "ACK "
    IN  [refs |-> packetLine(service) \o flush
                  \o packetLine(R.commitSha \o headCaps)
                  \o packetLine(R.commitSha \o masterRef) \o flush,
         body |-> (IF line = "NAK" THEN packetLine(nak)
                   ELSE packetLine(ack \o R.commitSha \o <<10>>))
                  \o packed \o (IF good THEN sum ELSE [sum EXCEPT ![1] = (@ + 1) % 256]),
         tab |-> sha1Learn(R.tab, packed),
         commitSha |-> R.commitSha,
         objs |-> R.objs] @@ known

\* The remote r answering a clone, for the variant, the first line ("NAK" or
\* "ACK <sha>") and the trailer (good or not) chosen; a packfile starts with
\* "PACK" and the version 2.
Remote(r, variant, line, good) ==
    LET blobOf(R, path) ==
            CHOOSE o \in R.objs : o.kind = StrBlob /\ o.payload = r.work[path].data
        answer(R, base, target) ==
            RemoteAnswers(R,
                <<80, 65, 67, 75>> \o <<0, 0, 0, 2>>
                    \o PackEntries(R, r, variant, base, target),
                line, good,
                [files |-> {[path |-> q, data |-> r.work[q].data, perm |-> r.work[q].perm] :
                               q \in {x \in DOMAIN r.work : ~r.work[x].dir}},
                 variant |-> variant, line |-> line, good |-> good,
                 base |-> base, target |-> target, mid |-> R.mid,
                 order |-> PackOrder(R, variant, target)])
        \* mid: the payload of base and the byte "c", a blob of no file
        withMid(R, envelope, payload) ==
            [tab |-> sha1Learn(R.tab, envelope), commitSha |-> R.commitSha, objs |-> R.objs,
             mid |-> [sha |-> calcSHA1(R.tab, envelope), kind |-> StrBlob,
                      payload |-> payload]]
        middle(R, payload) == withMid(R, wrapContent(payload, StrBlob), payload)
        served(R) == answer(middle(R, r.work[r.base].data \o <<99>>),
                            blobOf(R, r.base), blobOf(R, r.target))
    IN  served(RemoteObjects(WriteTree(Proc(r.work, FALSE, <<>>, <<>>), <<>>)))

(***************************************************************************)
(* The clone specification: one run of Clone(repo, localDir) against a     *)
(* remote, a step for each call of Clone and for each object of the pack.  *)
(* clonePc is the position of the process: "idle", "pack" (the reference   *)
(* is written), "objects" (in the loop of fetchObjects), "restore" (the    *)
(* map is persisted), "done", or "failed" (exited under must or panicked); *)
(* after a failure shaToObj shows the map as the failed call left it.      *)
(***************************************************************************)
\* The directory clone is run in: empty; holding the file d/a from before;
\* holding the directory d/a from before.
CloneFs ==
    { MkFs({}),
      MkFs({File(<<NameD, NameA>>, <<120>>, 420)}),
      MkFs({File(<<NameD, NameA, NameX>>, <<120>>, 420)}) }

Answers ==
    {Remote(r, variant, line, good) :
        r \in Remotes, variant \in Variants,
        line \in {"NAK", "ACK"}, good \in BOOLEAN}

CloneSpecInit ==
    /\ fs \in CloneFs
    /\ readOnly = FALSE
    /\ input \in Answers
    /\ sha1tab = input.tab
    /\ shaToObj = <<>>
    /\ last = NoRun
    /\ written = {}
    /\ clonePc = "idle"
    /\ steps = 0
    /\ pack = NoPack

\* The clone process as it stands.
Cloning == Proc(fs, readOnly, sha1tab, shaToObj)

\* must(err) for the error a call of Clone returned.
mustNot(P) == IF P.halt = "" /\ P.why # "" THEN must(P) ELSE P

\* Init, fetchLatestCommitHash, writeBranchRefFile.
CloneStart ==
    /\ clonePc = "idle"
    /\ LET ref(P1) == IF P1.halt # "" THEN P1
                      ELSE mustNot(writeBranchRefFile(P1, CloneDir, StrMaster, P1.ret))
           end(P1, P2) ==
               /\ Finish("clone-start", CloneDir, P2)
               /\ clonePc' = IF P2.halt = "" THEN "pack" ELSE "failed"
               /\ pack' = [NoPack EXCEPT !.commitSha = P1.ret]
           go(P1) == end(P1, ref(P1))
       IN  go(fetchLatestCommitHash(Init(Cloning, CloneDir), input.refs))
    /\ shaToObj' = <<>>

\* fetchObjects up to its loop.
FetchPack ==
    /\ clonePc = "pack"
    /\ LET end(R) ==
               /\ Finish("clone-pack", <<>>, mustNot(R.P))
               /\ clonePc' = IF R.ok THEN "objects" ELSE "failed"
               /\ pack' = [pack EXCEPT !.reader = R.reader, !.left = R.left]
               /\ shaToObj' = R.P.map
       IN  end(fetchObjectsOpen(Cloning, input.body))

\* One turn of the loop of fetchObjects.
ReadObject ==
    /\ clonePc = "objects"
    /\ pack.left > 0
    /\ LET end(R) ==
               /\ Finish("clone-object", <<>>, mustNot(R.P))
               /\ clonePc' = IF R.ok THEN "objects" ELSE "failed"
               /\ pack' = [pack EXCEPT !.reader = R.rest, !.left = @ - 1]
               /\ shaToObj' = R.P.map
       IN  \E oob \in {"panic", "zeros"} : end(readObject(Cloning, pack.reader, oob))

\* writeFetchedObjects(localDir) as soon as the first object is decoded.
PersistEarly ==
    /\ clonePc = "objects"
    /\ shaToObj # <<>>
    /\ LET end(R) ==
               /\ Finish("clone-persist", CloneDir, IF R.ok THEN R.P ELSE must(R.P))
               /\ clonePc' = IF R.ok THEN "restore" ELSE "failed"
       IN  end(writeFetchedObjects(Cloning, CloneDir, SortNames(DOMAIN shaToObj)))
    /\ UNCHANGED <<shaToObj, pack>>

\* The loop of fetchObjects is over: writeFetchedObjects(localDir).
PersistObjects ==
    /\ clonePc = "objects"
    /\ pack.left = 0
    /\ LET end(R) ==
               /\ Finish("clone-persist", CloneDir, IF R.ok THEN R.P ELSE must(R.P))
               /\ clonePc' = IF R.ok THEN "restore" ELSE "failed"
       IN  \E order \in Orders(DOMAIN shaToObj) :
               end(writeFetchedObjects(Cloning, CloneDir, order))
    /\ UNCHANGED <<shaToObj, pack>>

\* restoreRepository(localDir, commitSha).
RestoreRepository ==
    /\ clonePc = "restore"
    /\ LET end(P) ==
               /\ Finish("clone-restore", CloneDir, P)
               /\ clonePc' = IF P.halt = "" THEN "done" ELSE "failed"
       IN  end(restoreRepository(Cloning, CloneDir, pack.commitSha))
    /\ UNCHANGED <<shaToObj, pack>>

CloneNext ==
    \/ CloneStart
    \/ FetchPack
    \/ ReadObject
    \/ PersistObjects
    \/ RestoreRepository

SpecClone == CloneSpecInit /\ [][CloneNext]_vars

AfterPacketLine(body) ==
    LET length == ((HexValue(body[1]) * 16 + HexValue(body[2])) * 16 + HexValue(body[3])) * 16
                  + HexValue(body[4])
    IN  SubSeq(body, length + 1, Len(body))

(* C15: the packfile fetcher consumes exactly one packet-line, of the      *)
(* length its four hex digits state ("NAK" or "ACK <sha>"), from the start *)
(* of the upload-pack response, and returns exactly the rest of the        *)
(* response, which begins with "PACK".                                     *)
C15_OnePacketLine ==
    last.cmd = "clone-pack" =>
        /\ fetchPackfile(input.body).ok
        /\ fetchPackfile(input.body).packfileBuf = AfterPacketLine(input.body)
        /\ SubSeq(fetchPackfile(input.body).packfileBuf, 1, 4) = <<80, 65, 67, 75>>

\* The response began with the line "0031ACK <sha>\n": the fetcher dropped
\* "0031ACK " and returned bytes that begin with the SHA of that line and
\* end with the trailer of a sound packfile, and clone failed on the checksum.
C15_Witness ==
    /\ last.cmd = "clone-pack"
    /\ input.line = "ACK"
    /\ input.good
    /\ SubSeq(AfterPacketLine(input.body), 1, 4) = <<80, 65, 67, 75>>
    /\ SubSeq(fetchPackfile(input.body).packfileBuf, 1, 2 * HashLen) = input.commitSha
    /\ last.why = "checksum"
    /\ last.exit = 1
    /\ clonePc = "failed"

\* The last 20 bytes of the packfile the fetcher returns are the SHA-1 of
\* the bytes before them.
TrailerSound ==
    LET packfileBuf == fetchPackfile(input.body).packfileBuf
        n == Len(packfileBuf)
    IN  /\ n >= HashLen
        /\ SubSeq(packfileBuf, 1, n - HashLen) \in DOMAIN sha1tab
        /\ sha1tab[SubSeq(packfileBuf, 1, n - HashLen)] = SubSeq(packfileBuf, n - HashLen + 1, n)

(* C16: the trailer of the packfile is verified before any object is       *)
(* parsed: when the last 20 bytes differ from the SHA-1 of the bytes       *)
(* before them, decoding fails with a checksum error and leaves the map as *)
(* it was; objects are read only from a packfile whose trailer is sound.   *)
C16_TrailerFirst ==
    [][/\ (clonePc = "pack" /\ ~TrailerSound) =>
              /\ clonePc' = "failed"
              /\ last'.why = "checksum"
              /\ last'.exit = 1
              /\ shaToObj' = shaToObj
       /\ (clonePc = "objects" \/ clonePc' = "objects" \/ last'.cmd = "clone-object") =>
              TrailerSound]_vars

\* A packfile with an altered trailer was rejected with the map still empty.
C16_Witness ==
    /\ last.cmd = "clone-pack"
    /\ input.line = "NAK"
    /\ ~input.good
    /\ ~TrailerSound
    /\ last.why = "checksum"
    /\ clonePc = "failed"
    /\ shaToObj = <<>>

\* The entry at the head of the reader is a ref-delta, and the SHA of its base.
AtRefDelta ==
    /\ clonePc = "objects"
    /\ pack.left > 0
    /\ readObjectTypeAndLen(pack.reader).ok
    /\ readObjectTypeAndLen(pack.reader).objType = OBJECT_REF_DELTA

BaseOfDelta == readSha(readObjectTypeAndLen(pack.reader).rest).sha

(* C17: a ref-delta is resolved only against a base decoded from an        *)
(* earlier position of the packfile: when the SHA of its base is not in    *)
(* the map as the delta is reached, decoding stops with an unknown-base    *)
(* error and the delta adds nothing to the map; a delta that adds an       *)
(* object found its base in the map; after a failure the map stays as it   *)
(* is.                                                                     *)
C17_BaseBeforeDelta ==
    [][/\ (AtRefDelta /\ BaseOfDelta \notin DOMAIN shaToObj) =>
              /\ clonePc' = "failed"
              /\ last'.why = "unknown obj sha"
              /\ last'.exit = 1
              /\ shaToObj' = shaToObj
       /\ (AtRefDelta /\ shaToObj' # shaToObj) => BaseOfDelta \in DOMAIN shaToObj
       /\ clonePc = "failed" => (clonePc' = "failed" /\ shaToObj' = shaToObj)]_vars

\* The pack sent the delta as its first entry, ahead of its base: decoding
\* stopped at the delta, with neither the base nor the target in the map.
C17_Witness ==
    /\ last.cmd = "clone-object"
    /\ input.variant = "deltaFirst"
    /\ last.why = "unknown obj sha"
    /\ clonePc = "failed"
    /\ input.base.sha \notin DOMAIN shaToObj
    /\ input.target.sha \notin DOMAIN shaToObj

\* The entry at the head of the reader is an ofs-delta.
AtOfsDelta ==
    /\ clonePc = "objects"
    /\ pack.left > 0
    /\ readObjectTypeAndLen(pack.reader).ok
    /\ readObjectTypeAndLen(pack.reader).objType = OBJECT_OFS_DELTA

(* C18: an entry of type ofs-delta (6) makes decoding fail with an         *)
(* unsupported error: nothing is added to the map for it, and no later     *)
(* entry of the pack is decoded.                                           *)
C18_OfsDeltaUnsupported ==
    [][/\ AtOfsDelta =>
              /\ clonePc' = "failed"
              /\ last'.why = "Unsupported"
              /\ last'.exit = 1
              /\ shaToObj' = shaToObj
       /\ (last.why = "Unsupported" /\ last.cmd = "clone-object") =>
              (last'.cmd # "clone-object" /\ shaToObj' = shaToObj)]_vars

\* Decoding stopped at an ofs-delta, the second entry of the pack, with the
\* first entry in the map and the later entries not read.
C18_Witness ==
    /\ last.cmd = "clone-object"
    /\ input.variant = "ofs"
    /\ last.why = "Unsupported"
    /\ clonePc = "failed"
    /\ Cardinality(DOMAIN shaToObj) = 1
    /\ pack.left > 0
    /\ input.target.sha \notin DOMAIN shaToObj

(* C19: a copy instruction whose decoded size is 0 copies 0x10000 bytes of  *)
(* the base, from the decoded offset on: an object rebuilt from a delta    *)
(* with such an instruction has at least 0x10000 (65536) bytes.            *)
C19_ZeroSizeCopy ==
    [][(AtRefDelta /\ input.variant = "zeroCopy" /\ shaToObj' # shaToObj) =>
            \E sha \in DOMAIN shaToObj' \ DOMAIN shaToObj :
                Len(shaToObj'[sha].Buf) >= 65536]_vars

\* The delta "copy at offset 0 with no size byte, then insert the target"
\* was rebuilt as the inserted bytes alone and saved in the map.
C19_Witness ==
    /\ last.cmd = "clone-object"
    /\ last.exit = 0
    /\ input.variant = "zeroCopy"
    /\ pack.left = 0
    /\ input.target.sha \in DOMAIN shaToObj
    /\ shaToObj[input.target.sha].Buf = input.target.payload
    /\ Len(input.target.payload) < 65536

\* The dst_size the header of the delta at the head of the reader states.
DstSizeOfDelta ==
    LET delta == decompressObject(readSha(readObjectTypeAndLen(pack.reader).rest).rest).data
    IN  ReadUvarint(ReadUvarint(delta, 0, 0).rest, 0, 0).val

(* C20: rebuilding an object from a delta succeeds only if the length of   *)
(* the output equals the dst_size of the delta's header: an object the     *)
(* step adds has that length, and a delta whose instructions produce       *)
(* another length ends decoding with a corrupt-delta error and nothing     *)
(* stored in the map.                                                      *)
C20_DstSize ==
    [][(AtRefDelta /\ BaseOfDelta \in DOMAIN shaToObj) =>
           /\ clonePc' = "objects" =>
                  /\ DOMAIN shaToObj' # DOMAIN shaToObj
                  /\ \A sha \in DOMAIN shaToObj' \ DOMAIN shaToObj :
                         Len(shaToObj'[sha].Buf) = DstSizeOfDelta
           /\ input.variant = "dstMismatch" =>
                  /\ clonePc' = "failed"
                  /\ last'.why = "invalid deltified buf"
                  /\ last'.exit = 1
                  /\ shaToObj' = shaToObj]_vars

\* A delta whose header states one byte more than its instructions produce
\* was rejected, with its base in the map and its target not.
C20_Witness ==
    /\ last.cmd = "clone-object"
    /\ input.variant = "dstMismatch"
    /\ last.why = "invalid deltified buf"
    /\ clonePc = "failed"
    /\ input.base.sha \in DOMAIN shaToObj
    /\ input.target.sha \notin DOMAIN shaToObj

(* C21: check-out writes every tree entry whose mode starts with "100" as  *)
(* a file at <repoRoot>/<currentPath>/<name> with the payload of the blob  *)
(* as content and with the permission bits the last three octal digits of  *)
(* the mode state (100755 gives 0755), parent directories created as       *)
(* needed: after a check-out without an error every regular file of the    *)
(* remote's working tree, whose entry write-tree gave the mode "100" and   *)
(* the three octal digits of its permission, is such a file.               *)
C21_CheckoutModes ==
    (clonePc = "done" /\ ~last.err) =>
        \A f \in input.files :
            /\ IsFile(fs, Join(CloneDir, f.path))
            /\ fs[Join(CloneDir, f.path)].data = f.data
            /\ fs[Join(CloneDir, f.path)].perm = f.perm
            /\ \A k \in 1..(Len(f.path) - 1) : IsDir(fs, Join(CloneDir, SubSeq(f.path, 1, k)))

\* The entry "100755 b" of the tree d was checked out with its content, in
\* the directory d created for it, as a file of permission 0644.
C21_Witness ==
    /\ clonePc = "done"
    /\ ~last.err
    /\ \E f \in input.files :
           /\ f.perm = 493
           /\ Len(f.path) = 2
           /\ Join(CloneDir, f.path) \notin DOMAIN last.had
           /\ IsFile(fs, Join(CloneDir, f.path))
           /\ fs[Join(CloneDir, f.path)].data = f.data
           /\ fs[Join(CloneDir, f.path)].perm = 420

(***************************************************************************)
(* The check-out specification: the last step of Clone, restoreRepository, *)
(* on a repository whose objects writeFetchedObjects has persisted.  The   *)
(* trees of the remote hold, besides files and a subtree, symbolic links   *)
(* (mode 120000, a blob with the target path) and a gitlink (mode 160000,  *)
(* the SHA of a commit of another repository, which no pack of this        *)
(* repository contains).                                                   *)
(***************************************************************************)
\* An entry of a remote tree: its mode and name, and its object, given as
\* the payload of a blob, as the entries of a subtree (sub), or as a commit
\* that is not part of the repository (stored = FALSE).
TreeChild(Perm, Name, Buf, sub, stored) ==
    [Perm |-> Perm, Name |-> Name, Buf |-> Buf, sub |-> sub, stored |-> stored]

\* The entries a root tree of the remote is made of: the file a; the link b
\* to "a"; the subtree d with the link l to "x" and the file x (100755); the
\* link l to "a b"; the gitlink m; the file x (100755).
LinkEntries ==
    LET file == <<49, 48, 48, 54, 52, 52>>               \* "100644"
        exec == <<49, 48, 48, 55, 53, 53>>               \* "100755"
        link == <<49, 50, 48, 48, 48, 48>>               \* "120000"
        gitlink == <<49, 54, 48, 48, 48, 48>>            \* "160000"
    IN  { TreeChild(file, NameA, <<97>>, <<>>, TRUE),
          TreeChild(link, NameB, <<97>>, <<>>, TRUE),
          TreeChild(dirPerm, NameD, <<>>,
                    << TreeChild(link, <<108>>, <<120>>, <<>>, TRUE),
                       TreeChild(exec, NameX, <<98, 97>>, <<>>, TRUE) >>, TRUE),
          TreeChild(link, <<108>>, <<97, 32, 98>>, <<>>, TRUE),
          TreeChild(gitlink, <<109>>, <<116, 114, 101, 101, 32, 10>>, <<>>, FALSE),
          TreeChild(exec, NameX, <<98, 97>>, <<>>, TRUE) }

\* The remote's objects for the entries of a tree, saved one after the other
\* in the map of P, and the entries of the tree as GitTree holds them.
RECURSIVE treeObjects(_, _, _)
treeObjects(P, children, Entry) ==
    IF children = <<>> THEN [P |-> P, Entry |-> Entry]
    ELSE LET c == Head(children)
             entry(Q, o) ==
                 [P |-> IF c.stored THEN saveObj(Q, o).P
                        ELSE [Q EXCEPT !.tab = sha1Learn(Q.tab, wrappedBuf(o).buf)],
                  e |-> [Perm |-> c.Perm, Name |-> c.Name,
                         Hash |-> sha1Sum(Q.tab, wrappedBuf(o).buf)]]
             next(E) == treeObjects(E.P, Tail(children), Append(Entry, E.e))
             subtree(T) == next(entry(T.P, [Type |-> OBJECT_TREE, Buf |-> TreeEntries(T.Entry)]))
         IN  IF c.sub # <<>> THEN subtree(treeObjects(P, c.sub, <<>>))
             ELSE IF c.stored THEN next(entry(P, [Type |-> OBJECT_BLOB, Buf |-> c.Buf]))
             ELSE next(entry(P, [Type |-> OBJECT_COMMIT, Buf |-> c.Buf]))

\* The repository clone has persisted for a remote whose root tree has the
\* entries children: the process before restoreRepository, and its commit.
Persisted(children) ==
    LET stored(P) == writeFetchedObjects(P, CloneDir, SortNames(DOMAIN P.map)).P
        commit(P, o) ==
            [P |-> stored(saveObj(P, o).P), commitSha |-> calcSHA1(P.tab, wrappedBuf(o).buf),
             children |-> children]
        root(P, o) ==
            commit(saveObj(P, o).P,
                   [Type |-> OBJECT_COMMIT,
                    Buf |-> <<116, 114, 101, 101, 32>> \o calcSHA1(P.tab, wrappedBuf(o).buf)
                            \o <<10, 10>> \o StrInit \o <<10>>])
        tree(T) == root(T.P, [Type |-> OBJECT_TREE, Buf |-> TreeEntries(T.Entry)])
    IN  tree(treeObjects(Init(Proc(MkFs({}), FALSE, <<>>, <<>>), CloneDir), children, <<>>))

\* The root trees: every choice among the entries, in the order of the names.
RootTrees ==
    LET named(n) == CHOOSE c \in LinkEntries : c.Name = n
        inOrder(names) == [i \in 1..Len(names) |-> named(names[i])]
    IN  {inOrder(SortNames(N)) : N \in SUBSET {c.Name : c \in LinkEntries}}

CheckoutInit ==
    /\ input \in {Persisted(children) : children \in RootTrees}
    /\ fs = input.P.fs
    /\ readOnly = FALSE
    /\ sha1tab = input.P.tab
    /\ shaToObj = input.P.map
    /\ last = NoRun
    /\ written = {}
    /\ clonePc = "restore"
    /\ steps = 0
    /\ pack = [NoPack EXCEPT !.commitSha = input.commitSha]

SpecCheckout == CheckoutInit /\ [][RestoreRepository]_vars

\* The entries of the root tree that are links, and those that are files.
IsLink(c) == SubSeq(c.Perm, 1, 2) \in {<<49, 50>>, <<49, 54>>}

(* C22: check-out ignores the entries of mode 120000 (symbolic link) and   *)
(* 160000 (gitlink): no file is written for such an entry, its object is   *)
(* not read as a subtree, and the walk goes on with the next entry, so the *)
(* check-out of a tree with such entries ends without an error with every  *)
(* file entry of the tree written and nothing at the names of the links.   *)
C22_LinksIgnored ==
    (last.cmd = "clone-restore"
        /\ \E i \in DOMAIN input.children : IsLink(input.children[i])) =>
        /\ clonePc = "done"
        /\ last.exit = 0
        /\ \A i \in DOMAIN input.children :
               LET c == input.children[i]
               IN  /\ IsLink(c) => Join(CloneDir, <<c.Name>>) \notin DOMAIN fs
                   /\ (isBlob(c.Perm) /\ c.sub = <<>>) =>
                          /\ IsFile(fs, Join(CloneDir, <<c.Name>>))
                          /\ fs[Join(CloneDir, <<c.Name>>)].data = c.Buf

\* The check-out of the tree with the file a, the gitlink m and the file x
\* wrote a, ended at m with the exit code 1, and never wrote x.
C22_Witness ==
    /\ last.cmd = "clone-restore"
    /\ Len(input.children) = 3
    /\ input.children[2].Perm = <<49, 54, 48, 48, 48, 48>>
    /\ isBlob(input.children[3].Perm)
    /\ clonePc = "failed"
    /\ last.exit = 1
    /\ IsFile(fs, Join(CloneDir, <<NameA>>))
    /\ Join(CloneDir, <<input.children[3].Name>>) \notin DOMAIN fs

(***************************************************************************)
(* The header specification: readObjectTypeAndLen applied to the header of *)
(* a pack entry, followed by the first bytes of its data.                  *)
(***************************************************************************)
\* The sizes of the entries: of one header byte (below 16), of one
\* continuation byte (below 2^11), of two (below 2^18) and of three.
HeaderSizes == {0, 1, 15, 16, 17, 300, 2047, 2048, 2049, 4660, 262143, 262144, 300000}

\* A header of each type and size, followed by the start of a zlib stream.
HeaderInit ==
    \E t \in {OBJECT_COMMIT, OBJECT_TREE, OBJECT_BLOB, OBJECT_TAG,
              OBJECT_OFS_DELTA, OBJECT_REF_DELTA},
       n \in HeaderSizes :
        Rest(MkFs({}), [t |-> t, n |-> n, reader |-> PutTypeAndLen(t, n) \o <<120, 156>>])

\* objType, objLen, err := readObjectTypeAndLen(reader)
ReadHeader ==
    /\ last.cmd = ""
    /\ LET end(h) == Finish("read-header", input.reader, [Start EXCEPT !.ret = h, !.err = ~h.ok])
       IN  end(readObjectTypeAndLen(input.reader))
    /\ UNCHANGED <<shaToObj, clonePc, pack>>

SpecHeader == HeaderInit /\ [][ReadHeader]_vars

\* The continuation bytes of a header: the bytes after the first, up to and
\* including the first one without the top bit.
RECURSIVE Continuation(_)
Continuation(bytes) ==
    IF bytes = <<>> THEN <<>>
    ELSE IF Head(bytes) < 128 THEN <<Head(bytes)>>
    ELSE <<Head(bytes)>> \o Continuation(Tail(bytes))

\* The size a header states: the low 4 bits of the first byte, and the low
\* 7 bits of the continuation byte k shifted left by 4 + 7 * (k - 1).
StatedSize(reader) ==
    LET cont == IF reader[1] < 128 THEN <<>> ELSE Continuation(Tail(reader))
    IN  (reader[1] % 16)
        + SumSeq([k \in 1..Len(cont) |-> (cont[k] % 128) * 2^(4 + 7 * (k - 1))])

(* C23: the decoder of the header of a pack entry returns as type the bits *)
(* 4..6 of the first byte, and as size the low 4 bits of the first byte    *)
(* plus, for the continuation bytes k = 1, 2, ... (read while the top bit  *)
(* is set), the low 7 bits of byte k shifted left by 4 + 7 * (k - 1); also *)
(* for headers with two or more continuation bytes.                        *)
C23_HeaderSize ==
    last.cmd = "read-header" =>
        /\ last.ret.ok
        /\ last.ret.objType = (input.reader[1] \div 16) % 8
        /\ last.ret.objLen = StatedSize(input.reader)
        /\ last.ret.rest = <<120, 156>>

\* The header 0xB0 0x80 0x01 of a blob of 2048 bytes, with two continuation
\* bytes, was decoded as a blob of 4096 bytes.
C23_Witness ==
    /\ last.cmd = "read-header"
    /\ input.reader = <<176, 128, 1, 120, 156>>
    /\ StatedSize(input.reader) = 2048
    /\ input.n = 2048
    /\ last.ret.objType = OBJECT_BLOB
    /\ last.ret.objLen = 4096

\* The loop of fetchObjects is at an entry that is no delta.
AtWhole ==
    /\ clonePc = "objects"
    /\ pack.left > 0
    /\ pack.reader # <<>>
    /\ (pack.reader[1] \div 16) % 8 \in {OBJECT_COMMIT, OBJECT_TREE, OBJECT_BLOB, OBJECT_TAG}

\* The number of bytes the data of the entry at the head of the reader
\* inflates to.
InflatedLen == Len(decompressObject(readObjectTypeAndLen(pack.reader).rest).data)

(* C24: every non-delta object the pack decoder stores in the map has a    *)
(* payload of exactly the size its entry header declares, and an entry     *)
(* whose data inflates to another length than declared is not stored.      *)
C24_DeclaredSize ==
    [][AtWhole =>
           /\ \A sha \in DOMAIN shaToObj' \ DOMAIN shaToObj :
                  Len(shaToObj'[sha].Buf) = StatedSize(pack.reader)
           /\ InflatedLen # StatedSize(pack.reader) => shaToObj' = shaToObj]_vars

\* The blob sent with a header declaring one byte more than its data holds
\* was stored in the map, and the loop of fetchObjects went on to its end.
C24_Witness ==
    /\ last.cmd = "clone-object"
    /\ input.variant = "sizeMismatch"
    /\ last.exit = 0
    /\ clonePc = "objects"
    /\ pack.left = 0
    /\ input.target.sha \in DOMAIN shaToObj
    /\ shaToObj[input.target.sha].Buf = input.target.payload

\* The map is sound: every key is the SHA-1 of the envelope "<kind> <len>",
\* 0x00, <payload> of its value, and every value has one of the four kinds.
MapSound ==
    \A sha \in DOMAIN shaToObj :
        LET o == shaToObj[sha]
        IN  /\ o.Type \in {OBJECT_COMMIT, OBJECT_TREE, OBJECT_BLOB, OBJECT_TAG}
            /\ wrapContent(o.Buf, typeString(o.Type).s) \in DOMAIN sha1tab
            /\ sha = EncodeToString(sha1tab[wrapContent(o.Buf, typeString(o.Type).s)])

(* C25: the invariant of the map of the pack decoder.  In every reachable  *)
(* state each key of the map is the SHA-1 of the envelope of its value and *)
(* each value is a commit, a tree, a blob or a tag, never a delta; and an  *)
(* object rebuilt from a ref-delta has the type of its base, also when the *)
(* base was itself rebuilt from a delta.                                   *)
C25_MapInvariant ==
    /\ []MapSound
    /\ [][AtRefDelta =>
              \A sha \in DOMAIN shaToObj' \ DOMAIN shaToObj :
                  /\ BaseOfDelta \in DOMAIN shaToObj
                  /\ shaToObj'[sha].Type = shaToObj[BaseOfDelta].Type]_vars

\* The pack with a chain of deltas was decoded: the blob mid was rebuilt
\* from base, the target from mid, and both are blobs under their SHAs.
C25_Witness ==
    /\ last.cmd = "clone-object"
    /\ input.variant = "chain"
    /\ pack.left = 0
    /\ clonePc = "objects"
    /\ input.mid.sha \in DOMAIN shaToObj
    /\ input.target.sha \in DOMAIN shaToObj
    /\ shaToObj[input.mid.sha] = [Type |-> OBJECT_BLOB, Buf |-> input.mid.payload]
    /\ shaToObj[input.target.sha] = [Type |-> OBJECT_BLOB, Buf |-> input.target.payload]
    /\ Cardinality(DOMAIN shaToObj) = Cardinality(input.objs) + 1

\* The files of the working tree: no component of the path is ".git".
WorkTree(f) ==
    LET paths == {p \in DOMAIN f : ~f[p].dir /\ \A k \in 1..Len(p) : p[k] # StrGit}
    IN  [p \in paths |-> f[p]]

\* The SHAs of the first n entries of the pack.
FirstEntries(n) == {input.order[i] : i \in 1..n}

\* The map holds the first n entries of the pack and nothing else: n
\* objects, under the SHAs of the entries.  The entry whose copy ends
\* behind its base encodes no object of the remote, and has no SHA there.
InOrder(map, n) ==
    /\ Cardinality(DOMAIN map) = n
    /\ \A i \in 1..n :
           \/ input.order[i] \in DOMAIN map
           \/ input.variant = "copyBeyond" /\ input.order[i] = input.target.sha

\* The number of objects the header of the packfile declares.
Declared == Uint32(SubSeq(fetchPackfile(input.body).packfileBuf, 9, 12))

(* C26: the order of the steps of clone.  The objects of the pack are      *)
(* decoded strictly in the order of the packfile; no loose object is       *)
(* written below <dir>/.git/objects before every object of the pack is in  *)
(* the map; no file of the working tree is written before every object of  *)
(* the map is persisted; and when decoding fails, no loose object and no   *)
(* file of the working tree is written.                                    *)
C26_StepOrder ==
    [][/\ shaToObj' # shaToObj =>
              /\ clonePc = "objects" /\ pack.left > 0
              /\ InOrder(shaToObj, Declared - pack.left)
              /\ InOrder(shaToObj', Declared - pack.left + 1)
              /\ DOMAIN shaToObj \subseteq DOMAIN shaToObj'
       /\ ObjectFiles(fs') # ObjectFiles(fs) =>
              /\ clonePc = "objects" /\ pack.left = 0
              /\ InOrder(shaToObj, Len(input.order))
       /\ WorkTree(fs') # WorkTree(fs) =>
              /\ clonePc = "restore"
              /\ \A sha \in DOMAIN shaToObj :
                     /\ Join(CloneDir, objectPath(sha)) \in ObjectFiles(fs)
                     /\ ReadBack(CloneDir, sha).payload = shaToObj[sha].Buf
       /\ (clonePc' = "failed" /\ (clonePc = "pack" \/ (clonePc = "objects" /\ pack.left > 0))) =>
              /\ fs' = fs
              /\ ObjectFiles(fs') = {}]_vars

\* Decoding failed at the fourth entry of a pack: three objects are in the
\* map, nothing is below .git/objects, and the working tree is as it was
\* before clone, with the file d/a and nothing else.
C26_Witness ==
    /\ clonePc = "failed"
    /\ last.cmd = "clone-object"
    /\ Cardinality(DOMAIN shaToObj) = 3
    /\ DOMAIN shaToObj = FirstEntries(3)
    /\ ObjectFiles(fs) = {}
    /\ DOMAIN WorkTree(fs) = {<<NameD, NameA>>}

(***************************************************************************)
(* The delta specification: the loop of fetchObjects at a ref-delta whose  *)
(* base is in the map, the same entry coming twice.  The instructions of   *)
(* the delta insert literal bytes and copy from within the base.           *)
(***************************************************************************)
\* The payloads of the base: "ABC", "AB", and 258 bytes, for which offset
\* and size of a copy take two bytes.
DeltaBases == {<<65, 66, 67>>, <<65, 66>>, [i \in 1..258 |-> 65 + (i % 7)]}

\* The instructions of a delta of the base B: the inserts of "D" and "DE"
\* and, for the long base, of 127 bytes; and the copies of one or more bytes
\* within B (all of them for the short bases, some for the long one).
DeltaInstructions(B) ==
    {[op |-> "insert", data |-> d] :
        d \in {<<68>>, <<68, 69>>}
              \cup (IF Len(B) < 4 THEN {} ELSE {[i \in 1..127 |-> 70 + (i % 5)]})}
    \cup {[op |-> "copy", offset |-> c[1], size |-> c[2]] :
             c \in IF Len(B) < 4
                   THEN {x \in (0..Len(B)) \X (1..Len(B)) : x[1] + x[2] <= Len(B)}
                   ELSE {<<256, 2>>, <<1, 257>>}}

\* The entry of a pack for the delta of the base o with the instructions,
\* its header stating the length dstLen of the result.
DeltaEntry(o, sha, dstLen, instructions) ==
    LET entry(delta) ==
            PutTypeAndLen(OBJECT_REF_DELTA, Len(delta)) \o DecodeString(sha).bytes
            \o compressZlib(delta)
    IN  entry(PutDelta(Len(o.Buf), dstLen, instructions))

\* The bytes the instructions stand for: the literal bytes of an insert,
\* the bytes B[offset .. offset+size) of a copy, in the order of the
\* instructions.
Reference(B, instructions) ==
    Flatten([i \in 1..Len(instructions) |->
        IF instructions[i].op = "insert" THEN instructions[i].data
        ELSE SubSeq(B, instructions[i].offset + 1,
                    instructions[i].offset + instructions[i].size)])

\* The process with the base in its map, before the entry is read twice.
DeltaInit ==
    \E B \in DeltaBases :
        \E instructions \in SeqsUpTo(DeltaInstructions(B), MaxInstructions) :
            LET o == [Type |-> OBJECT_BLOB, Buf |-> B]
                sha == calcSHA1(<<>>, wrappedBuf(o).buf)
                entry == DeltaEntry(o, sha, Len(Reference(B, instructions)), instructions)
                begin(P) ==
                    /\ fs = MkFs({})
                    /\ readOnly = FALSE
                    /\ sha1tab = P.tab
                    /\ shaToObj = P.map
                    /\ last = NoRun
                    /\ written = {}
                    /\ input = [B |-> B, sha |-> sha, instructions |-> instructions,
                                entry |-> entry]
                    /\ clonePc = "objects"
                    /\ steps = 0
                    /\ pack = [commitSha |-> <<>>, reader |-> entry \o entry, left |-> 2]
            IN  begin(saveObj(Proc(MkFs({}), FALSE, <<>>, <<>>), o).P)

SpecDelta == DeltaInit /\ [][ReadObject]_vars

\* The object rebuilt from the delta, as the map holds it under its SHA.
Rebuilt ==
    LET o == [Type |-> OBJECT_BLOB, Buf |-> Reference(input.B, input.instructions)]
    IN  (calcSHA1(sha1tab, wrappedBuf(o).buf) :> o)

(* C27: applying a delta is a pure function that computes the reference   *)
(* result.  For every base B and every delta of inserts (1..127 literal    *)
(* bytes) and of copies with offset + size within B, the output is the     *)
(* concatenation, in the order of the instructions, of the literal bytes   *)
(* of each insert and of B[offset .. offset+size) of each copy; B is not   *)
(* modified; and applying the same delta to B again yields the same output *)
(* (the base "ABC" with copy[0,3] and insert "DE" gives "ABCDE").          *)
C27_DeltaPure ==
    /\ clonePc = "objects"
    /\ ~last.err
    /\ pack.left < 2 =>
           /\ input.sha \in DOMAIN shaToObj
           /\ shaToObj[input.sha] = [Type |-> OBJECT_BLOB, Buf |-> input.B]
           /\ shaToObj = Rebuilt @@ (input.sha :> [Type |-> OBJECT_BLOB, Buf |-> input.B])
           /\ pack.reader = IF pack.left = 1 THEN input.entry ELSE <<>>

\* The delta copy[0,3], insert "DE" was applied twice to the base "ABC",
\* and the map holds "ABC" and "ABCDE".
C27_Witness ==
    /\ input.B = <<65, 66, 67>>
    /\ input.instructions = <<[op |-> "copy", offset |-> 0, size |-> 3],
                              [op |-> "insert", data |-> <<68, 69>>]>>
    /\ pack.left = 0
    /\ last.cmd = "clone-object"
    /\ {shaToObj[sha].Buf : sha \in DOMAIN shaToObj} = {<<65, 66, 67>>, <<65, 66, 67, 68, 69>>}

\* <dir>/.git/refs/heads/master
MasterRef == Join(CloneDir, <<StrGit, StrRefs, <<104, 101, 97, 100, 115>>, StrMaster>>)

(* C28: the reference is sound in every state of a clone, also where clone *)
(* has stopped on an error: if <dir>/.git/refs/heads/master exists, the    *)
(* commit whose SHA it holds is an object file below <dir>/.git/objects.   *)
C28_RefIntegrity ==
    IsFile(fs, MasterRef) =>
        /\ Len(fs[MasterRef].data) = 2 * HashLen
        /\ IsFile(fs, Join(CloneDir, objectPath(fs[MasterRef].data)))
        /\ ReadBack(CloneDir, fs[MasterRef].data).kind = StrCommit

(* C28, amended: the reference is sound from the point where clone has    *)
(* persisted the objects of the pack, also where the check-out stops on an *)
(* error later: from then on <dir>/.git/refs/heads/master exists, holds    *)
(* the SHA the remote advertised, and the commit of that SHA is an object  *)
(* file below <dir>/.git/objects.                                          *)
C28_RefAfterPersist ==
    (clonePc \in {"restore", "done"} \/ last.cmd = "clone-restore") =>
        /\ IsFile(fs, MasterRef)
        /\ fs[MasterRef].data = input.commitSha
        /\ C28_RefIntegrity

\* Clone has persisted the objects and not yet checked out: the reference
\* holds the SHA of the remote's commit, whose object file is in place.
C28_Witness ==
    /\ clonePc = "restore"
    /\ last.cmd = "clone-persist"
    /\ last.exit = 0
    /\ IsFile(fs, MasterRef)
    /\ fs[MasterRef].data = input.commitSha
    /\ Join(CloneDir, objectPath(input.commitSha)) \in ObjectFiles(fs)
    /\ ReadBack(CloneDir, input.commitSha).kind = StrCommit

(* C29: the pack decoder reads the objects only from the region between    *)
(* the 12-byte header and the 20-byte trailer of a packfile with a valid   *)
(* checksum, whatever number of objects the header declares: every entry   *)
(* it reads starts before the trailer, a successful read ends before the   *)
(* trailer, so that no byte of the trailer is taken as an entry header, a  *)
(* base SHA or compressed data; and a pack that declares more objects      *)
(* than it holds ends in an error.                                         *)
C29_TrailerUnread ==
    [][(clonePc = "objects" /\ pack.left > 0) =>
           /\ Len(pack.reader) > HashLen
           /\ clonePc' = "objects" => Len(pack.reader') >= HashLen
           /\ Declared > Len(input.order) => clonePc' \in {"objects", "failed"}]_vars

\* The pack declared one object more than it holds: with every object in
\* the map, the decoder read the trailer as the next entry and stopped on
\* the error of the inflater.
C29_Witness ==
    /\ input.variant = "countTooLarge"
    /\ input.good
    /\ Declared = Len(input.order) + 1
    /\ last.cmd = "clone-object"
    /\ pack.left = 0
    /\ DOMAIN shaToObj = FirstEntries(Len(input.order))
    /\ clonePc = "failed"
    /\ last.why = "zlib"
    /\ last.exit = 1

\* The delta at the head of the reader holds a copy that ends behind the
\* last byte of its base.
AtCopyBeyond ==
    /\ AtRefDelta
    /\ BaseOfDelta \in DOMAIN shaToObj
    /\ input.variant = "copyBeyond"

(* C30: the reconstruction of a delta never reads outside the payload of   *)
(* the base.  For every base B and every delta with a copy instruction of  *)
(* offset + size greater than len(B), readDeltified returns an error       *)
(* value, so that clone stops with exit code 1 and not with a crash, and   *)
(* no object is added to the map.                                          *)
C30_CopyWithinBase ==
    [][AtCopyBeyond =>
           /\ clonePc' = "failed"
           /\ last'.exit = 1
           /\ shaToObj' = shaToObj]_vars

\* The copy of one byte more than the base has stopped the process with a
\* run-time panic, the base in the map.
C30_Witness ==
    /\ input.variant = "copyBeyond"
    /\ last.cmd = "clone-object"
    /\ clonePc = "failed"
    /\ last.exit = 2
    /\ last.why = ""
    /\ pack.left = 0
    /\ input.base.sha \in DOMAIN shaToObj

====
